---------------------------- MODULE Spec2Model ----------------------------
(***************************************************************************)
(* Model of the property matching and ranking engine of jefferies-sync:    *)
(* src/lib/property_search.py (vocabulary resolver, candidate fetcher,     *)
(* scorer and the tier orchestrator PropertyRepository.find_best).         *)
(*                                                                         *)
(* Text is a TLA+ string; the operators that look inside a text work on    *)
(* its characters (Chars).  Python's None is the value None.               *)
(***************************************************************************)
EXTENDS Integers, Sequences, FiniteSets, TLC

VARIABLES
    vocab,      \* the vocabulary resolver's call: [op, arg, stage, out, out2]
    coll,       \* the document collection, in the store's natural order
    query,      \* the query dict handed to find_best
    pc,         \* find_best's position
    keyIdx,     \* index of the identifier key the first loop is at
    tierIdx,    \* index of the tier the second loop is at
    calls,      \* the store calls and tier runs made so far, in order
    fetched,    \* tier name -> the ranked candidates _run_tier returned
    debug,      \* the debug dict
    result,     \* what find_best returned or raised
    scored,     \* the scorer's call: the terms and the score of coll[1]
    reqs,       \* the find_best calls in progress side by side
    copies,     \* the dicts their cursors yielded, with the annotations
    idx         \* the collection's indexes and the process that sets them up

vars == <<vocab, coll, query, pc, keyIdx, tierIdx, calls, fetched, debug, result,
          scored, reqs, copies, idx>>

None == "<None>"

\* a variable no step of the specification at hand touches
Unused == <<>>

---------------------------------------------------------------------------
(* Characters and Python's str methods.                                    *)

Chars(s) == [i \in 1..Len(s) |-> SubSeq(s, i, i)]

RECURSIVE Join(_)
Join(cs) == IF cs = <<>> THEN "" ELSE Head(cs) \o Join(Tail(cs))

\* The characters the model's texts are written in, in code-point order.
Ascii == Chars(" #()-0123456789ABCDEFGHIJKLMNOPQRSTUVWXYZabcdefghijklmnopqrstuvwxyz")

Ord(c) == CHOOSE i \in 1..Len(Ascii) : Ascii[i] = c

UpperCase == Chars("ABCDEFGHIJKLMNOPQRSTUVWXYZ")
LowerCase == Chars("abcdefghijklmnopqrstuvwxyz")

LowerChar(c) ==
    IF \E i \in 1..Len(UpperCase) : UpperCase[i] = c
    THEN LowerCase[CHOOSE i \in 1..Len(UpperCase) : UpperCase[i] = c]
    ELSE c

\* str.lower()
Lower(s) == Join([i \in 1..Len(s) |-> LowerChar(SubSeq(s, i, i))])

IsSpace(c) == c = " "

\* str.strip()
Strip(s) ==
    LET cs == Chars(s)
        ink == {i \in 1..Len(cs) : ~IsSpace(cs[i])}
    IN  IF ink = {} THEN ""
        ELSE LET lo == CHOOSE i \in ink : \A j \in ink : i <= j
                 hi == CHOOSE i \in ink : \A j \in ink : i >= j
             IN  SubSeq(s, lo, hi)

\* x < y for two texts, as Python compares str
RECURSIVE SeqLess(_, _)
SeqLess(a, b) ==
    IF b = <<>> THEN FALSE
    ELSE IF a = <<>> THEN TRUE
    ELSE IF Head(a) = Head(b) THEN SeqLess(Tail(a), Tail(b))
    ELSE Ord(Head(a)) < Ord(Head(b))

StrLess(x, y) == SeqLess(Chars(x), Chars(y))

\* x in y for two texts (substring)
Contains(y, x) ==
    \E i \in 1..(Len(y) - Len(x) + 1) : SubSeq(y, i, i + Len(x) - 1) = x

---------------------------------------------------------------------------
(* The synonym tables.                                                     *)

_SUBCAT_CANON ==
    [house |-> {"detached house", "semi-detached house", "terraced house",
                "end of terrace house", "mid terrace house", "town house",
                "mews house", "character property", "mews", "mews home"},
     flat  |-> {"apartment", "apartments", "studio", "duplex", "penthouse",
                "maisonette", "flat"},
     other |-> {"house boat", "houseboat", "boat"}]

Canons == <<"house", "flat", "other">>

\* _LOOKUP's keys; every synonym is lower-case already
LookupKeys ==
    UNION {_SUBCAT_CANON[c] : c \in DOMAIN _SUBCAT_CANON} \cup DOMAIN _SUBCAT_CANON

\* _LOOKUP[k]: the dict comprehension goes through house, flat, other and a
\* later canon overwrites an earlier one; the canon keys are set last.
_LOOKUP(k) ==
    IF k \in DOMAIN _SUBCAT_CANON THEN k
    ELSE LET is == {i \in 1..Len(Canons) : k \in _SUBCAT_CANON[Canons[i]]}
         IN  Canons[CHOOSE i \in is : \A j \in is : j <= i]

FeatureCanons ==
    <<"private garden", "stairs", "off-street parking", "double garage",
      "lift", "balcony", "guest wc">>

_FEATURE_MAP ==
    [c \in {FeatureCanons[i] : i \in 1..Len(FeatureCanons)} |->
        CASE c = "private garden" ->
                {"garden", "roof garden", "roof terrace", "terrace"}
          [] c = "stairs" ->
                {"stairs", "internal staircase", "duplex", "internal stairs"}
          [] c = "off-street parking" ->
                {"off street", "private parking", "driveway"}
          [] c = "double garage" ->
                {"double garage", "garage (2 car)", "garage en bloc"}
          [] c = "lift" -> {"lift", "elevator"}
          [] c = "balcony" -> {"balcony", "front terrace"}
          [] c = "guest wc" ->
                {"guest wc", "guest cloakroom", "cloakroom", "wc"}]

---------------------------------------------------------------------------
(* difflib.get_close_matches, as canonical_subcategory calls it: the       *)
(* SequenceMatcher has no junk, and autojunk needs 200 characters.         *)

\* length of the common prefix of a[i..ahi] and b[j..bhi]
RECURSIVE MatchLen(_, _, _, _, _, _)
MatchLen(a, b, i, j, ahi, bhi) ==
    IF i > ahi \/ j > bhi \/ a[i] # b[j] THEN 0
    ELSE 1 + MatchLen(a, b, i + 1, j + 1, ahi, bhi)

\* SequenceMatcher.find_longest_match: the longest block, of those the one
\* that starts earliest in a, of those the one that starts earliest in b
FindLongestMatch(a, b, alo, ahi, blo, bhi) ==
    LET Block(ks, best) == [i |-> best[1], j |-> best[2], k |-> ks[best]]
        Longest(ks) ==
            Block(ks, CHOOSE p \in DOMAIN ks :
                          \A r \in DOMAIN ks :
                              \/ ks[p] > ks[r]
                              \/ /\ ks[p] = ks[r]
                                 /\ \/ p[1] < r[1]
                                    \/ p[1] = r[1] /\ p[2] <= r[2])
    IN  Longest([p \in (alo..ahi) \X (blo..bhi) |->
                    MatchLen(a, b, p[1], p[2], ahi, bhi)])

\* the sum of the sizes of SequenceMatcher.get_matching_blocks
RECURSIVE Matches(_, _, _, _, _, _)
Matches(a, b, alo, ahi, blo, bhi) ==
    IF alo > ahi \/ blo > bhi THEN 0
    ELSE LET Around(m) ==
                 IF m.k = 0 THEN 0
                 ELSE m.k + Matches(a, b, alo, m.i - 1, blo, m.j - 1)
                          + Matches(a, b, m.i + m.k, ahi, m.j + m.k, bhi)
         IN  Around(FindLongestMatch(a, b, alo, ahi, blo, bhi))

Count(cs, c) == Cardinality({i \in 1..Len(cs) : cs[i] = c})

Min(x, y) == IF x <= y THEN x ELSE y
Max(x, y) == IF x >= y THEN x ELSE y

RECURSIVE SumOver(_, _)
SumOver(S, f) ==
    IF S = {} THEN 0
    ELSE LET x == CHOOSE x \in S : TRUE IN f[x] + SumOver(S \ {x}, f)

\* quick_ratio's count: characters of b also available in a, as multisets
QuickMatches(a, b) ==
    LET cset == {b[i] : i \in 1..Len(b)}
    IN  SumOver(cset, [c \in cset |-> Min(Count(a, c), Count(b, c))])

\* the cutoff 0.82 as the fraction CutoffNum / CutoffDen
CutoffNum == 82
CutoffDen == 100

\* 2.0 * matches / length >= cutoff  (_calculate_ratio: 1.0 when length = 0)
RatioAtLeast(matches, length) ==
    IF length = 0 THEN TRUE
    ELSE 2 * matches * CutoffDen >= CutoffNum * length

\* the three tests of get_close_matches's loop for possibility x
IsClose(word, x) ==
    LET a == Chars(x)
        b == Chars(word)
        n == Len(a) + Len(b)
    IN  /\ RatioAtLeast(Min(Len(a), Len(b)), n)
        /\ RatioAtLeast(QuickMatches(a, b), n)
        /\ RatioAtLeast(Matches(a, b, 1, Len(a), 1, Len(b)), n)

\* SequenceMatcher(a = x, b = word).ratio() as <<matches, length>>
Ratio(word, x) ==
    LET a == Chars(x)
        b == Chars(word)
    IN  <<Matches(a, b, 1, Len(a), 1, Len(b)), Len(a) + Len(b)>>

\* get_close_matches(word, possibilities, n=1, cutoff): heapq.nlargest(1) of the
\* (ratio, x) pairs, so the largest ratio and of those the largest text
GetCloseMatches(word, possibilities) ==
    LET above(rs, x, y) ==
            \/ rs[x][1] * rs[y][2] > rs[y][1] * rs[x][2]
            \/ /\ rs[x][1] * rs[y][2] = rs[y][1] * rs[x][2]
               /\ (x = y \/ StrLess(y, x))
        Largest(rs) ==
            IF DOMAIN rs = {} THEN <<>>
            ELSE <<CHOOSE x \in DOMAIN rs : \A y \in DOMAIN rs : above(rs, x, y)>>
    IN  Largest([x \in {x \in possibilities : IsClose(word, x)} |->
                    Ratio(word, x)])

---------------------------------------------------------------------------
(* The vocabulary resolver.                                                *)

\* canonical_subcategory comparing the text as given, neither trimmed nor
\* case-folded
canonical_subcategory_as_given(val) ==
    IF val = None \/ val = "" THEN None
    ELSE IF val \in LookupKeys THEN _LOOKUP(val)
    ELSE LET First(hit) == IF hit # <<>> THEN _LOOKUP(hit[1]) ELSE None
         IN  First(GetCloseMatches(val, LookupKeys))

\* canonical_subcategory(val); the falsy values are None and ""
canonical_subcategory(val) ==
    IF val = None \/ val = "" THEN None
    ELSE LET First(hit) == IF hit # <<>> THEN _LOOKUP(hit[1]) ELSE None
             Resolve(t) ==
                 IF t \in LookupKeys THEN _LOOKUP(t)
                 ELSE First(GetCloseMatches(t, LookupKeys))
         IN  Resolve(Lower(Strip(val)))

\* norm_feature that knows the canonical names only, not their synonyms
norm_feature_canon_only(term) ==
    LET t == Lower(Strip(IF term = None THEN "" ELSE term))
    IN  IF \E i \in 1..Len(FeatureCanons) : t = FeatureCanons[i]
        THEN t ELSE "other"

\* norm_feature(term): the first canon, in the table's order, that term is
\* or has as a synonym
norm_feature(term) ==
    LET t  == Lower(Strip(IF term = None THEN "" ELSE term))
        is == {i \in 1..Len(FeatureCanons) :
                  t = FeatureCanons[i] \/ t \in _FEATURE_MAP[FeatureCanons[i]]}
    IN  IF is # {} THEN FeatureCanons[CHOOSE i \in is : \A j \in is : i <= j]
        ELSE t

---------------------------------------------------------------------------
(* The texts the resolver is called with: each base text as written, in    *)
(* capitals and capitalised, with 0..MaxPad blanks on either side.         *)

MaxPad == 1

UpperChar(c) ==
    IF \E i \in 1..Len(LowerCase) : LowerCase[i] = c
    THEN UpperCase[CHOOSE i \in 1..Len(LowerCase) : LowerCase[i] = c]
    ELSE c

UpperAll(s) == Join([i \in 1..Len(s) |-> UpperChar(SubSeq(s, i, i))])

Capitalised(s) ==
    IF s = "" THEN s ELSE UpperChar(SubSeq(s, 1, 1)) \o SubSeq(s, 2, Len(s))

RECURSIVE Blanks(_)
Blanks(n) == IF n = 0 THEN "" ELSE " " \o Blanks(n - 1)

Spellings(b) ==
    {Blanks(n) \o c \o Blanks(m) :
        n \in 0..MaxPad, m \in 0..MaxPad, c \in {b, UpperAll(b), Capitalised(b)}}

\* texts close to a vocabulary entry without being one
NearSubcats ==
    {"penthous", "houses", "flats", "townhouse", "mother", "float", "oat",
     "terrace house", "semi detached house"}

\* texts that are not close to any vocabulary entry
UnknownSubcats ==
    {"xyz-unknown-token", "bungalow", "villa", "cottage", "boat house",
     "a flat", "moat", "land"}

SubcatBases == LookupKeys \cup NearSubcats \cup UnknownSubcats

FeatureSynonyms == UNION {_FEATURE_MAP[c] : c \in DOMAIN _FEATURE_MAP}

\* amenity texts outside the table
OtherFeatures == {"gym", "swimming pool", "roof", "private", "garden flat",
                  "lifts", "wine-cellar"}

FeatureBases == DOMAIN _FEATURE_MAP \cup FeatureSynonyms \cup OtherFeatures

VocabCall(op, base, arg) ==
    [op |-> op, base |-> base, arg |-> arg, stage |-> "call",
     out |-> None, out2 |-> None]

VocabIdle == VocabCall("idle", None, None)

\* None and "" are the falsy arguments
VocabCalls ==
    UNION {{VocabCall("canonical_subcategory", b, a) : a \in Spellings(b)} :
              b \in SubcatBases \cup {""}}
    \cup UNION {{VocabCall("norm_feature", b, a) : a \in Spellings(b)} :
              b \in FeatureBases \cup {""}}
    \cup {VocabCall("canonical_subcategory", None, None),
          VocabCall("norm_feature", None, None)}

---------------------------------------------------------------------------
(* The resolver's calls as steps.                                          *)

ResolveSubcategory ==
    /\ vocab.op = "canonical_subcategory" /\ vocab.stage = "call"
    /\ vocab' = [vocab EXCEPT !.stage = "done",
                              !.out = canonical_subcategory(vocab.arg)]
    /\ UNCHANGED <<idx, scored, reqs, copies, coll, query, pc, keyIdx, tierIdx, calls, fetched, debug, result>>

NormFeature ==
    /\ vocab.op = "norm_feature" /\ vocab.stage = "call"
    /\ vocab' = [vocab EXCEPT !.stage = "once", !.out = norm_feature(vocab.arg)]
    /\ UNCHANGED <<idx, scored, reqs, copies, coll, query, pc, keyIdx, tierIdx, calls, fetched, debug, result>>

\* the result fed to norm_feature again
NormFeatureAgain ==
    /\ vocab.op = "norm_feature" /\ vocab.stage = "once"
    /\ vocab' = [vocab EXCEPT !.stage = "done", !.out2 = norm_feature(vocab.out)]
    /\ UNCHANGED <<idx, scored, reqs, copies, coll, query, pc, keyIdx, tierIdx, calls, fetched, debug, result>>

---------------------------------------------------------------------------
(* Values of mixed type: a field of a document or of the query that holds  *)
(* an int, a str or None is a record tagged with its type.                 *)

PyNone == [t |-> "none", n |-> 0, s |-> ""]
IntV(n) == [t |-> "int", n |-> n, s |-> ""]
StrV(s) == [t |-> "str", n |-> 0, s |-> s]

IsNone(v) == v.t = "none"
IsInt(v) == v.t = "int"
IsStr(v) == v.t = "str"

\* bool(v)
Truthy(v) ==
    CASE IsNone(v) -> FALSE
      [] IsInt(v) -> v.n # 0
      [] IsStr(v) -> v.s # ""

\* bool(s) for a text or None
TruthyText(s) == s # None /\ s # ""

\* a or b
Or(a, b) == IF Truthy(a) THEN a ELSE b
OrText(a, b) == IF TruthyText(a) THEN a ELSE b

Digits == Chars("0123456789")
IsDigit(c) == \E i \in 1..Len(Digits) : Digits[i] = c
DigitVal(c) == (CHOOSE i \in 1..Len(Digits) : Digits[i] = c) - 1

\* the number a sequence of digits writes
RECURSIVE DigitsVal(_)
DigitsVal(cs) ==
    IF cs = <<>> THEN 0
    ELSE 10 * DigitsVal(SubSeq(cs, 1, Len(cs) - 1)) + DigitVal(cs[Len(cs)])

\* str(n) for an int n >= 0
RECURSIVE NatToStr(_)
NatToStr(n) ==
    IF n < 10 THEN Digits[n + 1] ELSE NatToStr(n \div 10) \o Digits[(n % 10) + 1]

\* str(v)
PyStr(v) ==
    CASE IsNone(v) -> "None"
      [] IsInt(v) -> IF v.n < 0 THEN "-" \o NatToStr(-v.n) ELSE NatToStr(v.n)
      [] IsStr(v) -> v.s

\* int(s) for a text s: blanks around an optional sign and digits; PyNone
\* stands for the ValueError
IntOfText(s) ==
    LET Number(neg, ds) ==
            IF ds # <<>> /\ \A i \in 1..Len(ds) : IsDigit(ds[i])
            THEN IntV(IF neg THEN -DigitsVal(ds) ELSE DigitsVal(ds))
            ELSE PyNone
        Signed(t) ==
            IF t # <<>> /\ t[1] \in {"-", "+"}
            THEN Number(t[1] = "-", Tail(t))
            ELSE Number(FALSE, t)
    IN  Signed(Chars(Strip(s)))

\* re.sub(r"[^\d]", "", s)
OnlyDigits(s) == SelectSeq(Chars(s), IsDigit)

\* _intish(v): v in (None, "", False) is true of 0 as well, since 0 == False
_intish(v) ==
    IF IsNone(v) \/ (IsStr(v) /\ v.s = "") \/ (IsInt(v) /\ v.n = 0) THEN PyNone
    ELSE IF IsInt(v) THEN v
    ELSE LET Stripped(ds) == IF ds # <<>> THEN IntV(DigitsVal(ds)) ELSE PyNone
             Read(n) == IF ~IsNone(n) THEN n ELSE Stripped(OnlyDigits(v.s))
         IN  Read(IntOfText(v.s))

---------------------------------------------------------------------------
(* Documents of the collection.  A dotted path of the source is written    *)
(* with underscores (attributes.bedrooms is attributes_bedrooms, and       *)
(* address.locality is locality); a field a document lacks holds None,     *)
(* PyNone, "" or the empty list.                                           *)

DocDefaults ==
    [_id |-> "", id |-> PyNone,
     purpose |-> None, status |-> None,
     subcategory_canonical |-> None, subcategories |-> <<>>,
     display_address |-> "", full_address |-> "", hidden_address |-> "",
     locality |-> "", suburb_or_town |-> "", postcode |-> "",
     heading |-> "", body |-> "",
     highlights |-> <<>>, features |-> <<>>, location_terms |-> <<>>,
     tags |-> <<>>,
     price_sale_gbp |-> PyNone, price_sort_gbp |-> PyNone,
     price_match_sale |-> PyNone, listing_price_match_sale |-> PyNone,
     price_match |-> PyNone, state_value_price |-> PyNone,
     price_rent_pcm_gbp |-> PyNone, price_rent_amount_gbp |-> PyNone,
     price_match_rent_pa_inc_tax_month |-> PyNone,
     price_display |-> "",
     attributes_bedrooms |-> PyNone, attributes_full_bedrooms |-> PyNone,
     beds |-> PyNone,
     attributes_bathrooms |-> PyNone, attributes_full_bathrooms |-> PyNone,
     baths |-> PyNone,
     updated_at |-> PyNone,
     \* the keys _run_tier writes into the dicts it fetched
     _textScore |-> PyNone, _rankScore |-> PyNone]

Doc(o) == [f \in DOMAIN DocDefaults |-> IF f \in DOMAIN o THEN o[f] ELSE DocDefaults[f]]

\* how many listings of the pool the collection may hold
NListings == 4

Pool ==
    <<Doc([_id |-> "101", id |-> IntV(101),
           purpose |-> "sale", status |-> "current",
           subcategory_canonical |-> "flat", subcategories |-> <<"Penthouse">>,
           display_address |-> "12 Kings Road, Chelsea",
           locality |-> "Chelsea", postcode |-> "SW3",
           location_terms |-> <<"chelsea", "sw3">>,
           features |-> <<"Roof terrace", "Lift">>,
           price_sale_gbp |-> IntV(3), price_sort_gbp |-> IntV(3),
           attributes_bedrooms |-> IntV(3), attributes_bathrooms |-> IntV(2),
           updated_at |-> IntV(4)]),
      Doc([_id |-> "102", id |-> IntV(102),
           purpose |-> "sale", status |-> "current",
           subcategories |-> <<"Terraced House">>,
           display_address |-> "7 Chelsea Square",
           locality |-> "Chelsea",
           body |-> "A house with a garden",
           price_match_sale |-> IntV(2),
           attributes_full_bedrooms |-> StrV("2"), baths |-> StrV("1"),
           updated_at |-> IntV(3)]),
      Doc([_id |-> "103", id |-> IntV(103),
           purpose |-> "rental", status |-> "current",
           subcategory_canonical |-> "flat", subcategories |-> <<"Apartment">>,
           display_address |-> "Kensington High Street",
           locality |-> "Kensington",
           highlights |-> <<"Near Chelsea">>,
           price_rent_pcm_gbp |-> IntV(1), price_sort_gbp |-> IntV(1)]),
      Doc([_id |-> "104", id |-> IntV(104),
           status |-> "withdrawn",
           subcategory_canonical |-> "house",
           display_address |-> "Chelsea Embankment",
           price_display |-> "Guide #2",
           beds |-> IntV(1), attributes_bathrooms |-> IntV(3),
           updated_at |-> IntV(2)]),
      Doc([_id |-> "105", id |-> IntV(105),
           purpose |-> "rental", status |-> "sold",
           subcategories |-> <<"Houseboat">>,
           display_address |-> "Chelsea Harbour",
           features |-> <<"Balcony">>,
           price_rent_pcm_gbp |-> IntV(2),
           attributes_bedrooms |-> StrV("3"), attributes_bathrooms |-> IntV(3),
           updated_at |-> IntV(1)])>>

\* the collections: the first n listings of the pool
Collections == {SubSeq(Pool, 1, n) : n \in 0..Min(NListings, Len(Pool))}

\* more listings of the same place, for collections of more than TopN
MorePool ==
    <<Doc([_id |-> "106", id |-> IntV(106),
           purpose |-> "sale", status |-> "current",
           subcategory_canonical |-> "house",
           display_address |-> "3 Chelsea Manor Street",
           price_sale_gbp |-> IntV(1),
           attributes_bedrooms |-> IntV(2), attributes_bathrooms |-> IntV(1),
           updated_at |-> IntV(5)]),
      Doc([_id |-> "107", id |-> IntV(107),
           purpose |-> "sale", status |-> "current",
           subcategory_canonical |-> "flat",
           display_address |-> "Chelsea Park Gardens",
           price_sort_gbp |-> IntV(2),
           attributes_full_bedrooms |-> IntV(3), attributes_bathrooms |-> StrV("2"),
           updated_at |-> IntV(6)]),
      Doc([_id |-> "108", id |-> IntV(108),
           purpose |-> "rental", status |-> "current",
           display_address |-> "Chelsea Bridge Road",
           price_rent_pcm_gbp |-> IntV(3),
           beds |-> StrV("1")])>>

\* the whole pool, followed by the first n of the further listings
BigCollections == {Pool \o SubSeq(MorePool, 1, n) : n \in 0..Len(MorePool)}

---------------------------------------------------------------------------
(* The query dict.  A key the dict lacks reads as None, as q.get does.     *)

QueryDefaults ==
    [location |-> None, keyword |-> None,
     listing_id |-> PyNone, _id |-> PyNone, id |-> PyNone,
     purpose |-> None, status |-> None,
     subcategory |-> None, subcategory_canonical |-> None,
     price_min |-> PyNone, price_max |-> PyNone,
     beds_min |-> PyNone, baths_min |-> PyNone,
     features |-> <<>>]

Query(o) ==
    [f \in DOMAIN QueryDefaults |-> IF f \in DOMAIN o THEN o[f] ELSE QueryDefaults[f]]

---------------------------------------------------------------------------
(* Helpers of PropertyRepository.                                          *)

\* The pound sign.  The texts of the model are ASCII, and write it as #.
Pound == "#"

DigitSet == {Digits[i] : i \in 1..Len(Digits)}
DigitOrComma == DigitSet \cup {","}
Blank == {" "}

\* the longest run of characters of set cls that starts at cs[i]
RECURSIVE RunFrom(_, _, _)
RunFrom(cs, i, cls) ==
    IF i > Len(cs) \/ cs[i] \notin cls THEN <<>>
    ELSE <<cs[i]>> \o RunFrom(cs, i + 1, cls)

\* int(group.replace(",", "")); PyNone for the ValueError
IntOfGroup(run) ==
    LET ds == SelectSeq(run, IsDigit)
    IN  IF ds = <<>> THEN PyNone ELSE IntV(DigitsVal(ds))

\* _price_from_display(s)
_price_from_display(s) ==
    IF ~TruthyText(s) THEN PyNone
    ELSE
    LET cs == Chars(s)
        n  == Len(cs)
        np == Len(Pound)
        \* re.search(r"<pound>\s*([\d,]+)", s): where the group starts, for a match at i
        groupAt(i) == i + np + Len(RunFrom(cs, i + np, Blank))
        pounds == {i \in 1..n : /\ i + np - 1 <= n
                                /\ SubSeq(s, i, i + np - 1) = Pound
                                /\ RunFrom(cs, groupAt(i), DigitOrComma) # <<>>}
        \* re.search(r"([\d][\d,]{3,})", s)
        numbers == {i \in 1..n : /\ IsDigit(cs[i])
                                 /\ Len(RunFrom(cs, i + 1, DigitOrComma)) >= 3}
        first(S) == CHOOSE i \in S : \A j \in S : i <= j
    IN  IF pounds # {}
        THEN IntOfGroup(RunFrom(cs, groupAt(first(pounds)), DigitOrComma))
        ELSE IF numbers # {}
        THEN IntOfGroup(RunFrom(cs, first(numbers), DigitOrComma))
        ELSE PyNone

keys_sale ==
    <<"price_sale_gbp", "price_sort_gbp", "price_match_sale",
      "listing_price_match_sale", "price_match", "state_value_price">>

keys_rent ==
    <<"price_rent_pcm_gbp", "price_rent_amount_gbp",
      "price_match_rent_pa_inc_tax_month", "price_match", "state_value_price">>

\* _price_numeric(doc, purpose)
_price_numeric(doc, purpose) ==
    LET \* ps: _price_from_display of price_display and of heading
        Shown(ps) == IF Truthy(ps[1]) THEN ps[1] ELSE ps[2]
        \* vs[i]: _intish of the i-th key's field
        First(vs, hits) ==
            IF hits # {}
            THEN vs[CHOOSE i \in hits : \A j \in hits : i <= j]
            ELSE Shown([f \in 1..2 |->
                     _price_from_display(
                         IF f = 1 THEN doc.price_display ELSE doc.heading)])
        Stored(vs) == First(vs, {i \in DOMAIN vs : Truthy(vs[i])})
        Keyed(keys) == Stored([i \in 1..Len(keys) |-> _intish(doc[keys[i]])])
    IN  Keyed(IF purpose = "rental" THEN keys_rent ELSE keys_sale)

\* the first of the values vs that _intish reads a number from, else the
\* last one's reading
FirstIntish(vs) ==
    LET First(ns, hits) ==
            IF hits # {}
            THEN ns[CHOOSE i \in hits : \A j \in hits : i <= j]
            ELSE ns[Len(ns)]
        Read(ns) == First(ns, {i \in 1..(Len(ns) - 1) : ~IsNone(ns[i])})
    IN  Read([i \in 1..Len(vs) |-> _intish(vs[i])])

\* _beds(doc)
_beds(doc) ==
    FirstIntish(<<doc.attributes_bedrooms, doc.attributes_full_bedrooms, doc.beds>>)

\* _baths(doc)
_baths(doc) ==
    FirstIntish(<<doc.attributes_bathrooms, doc.attributes_full_bathrooms, doc.baths>>)

\* " ".join(parts)
RECURSIVE JoinBlank(_)
JoinBlank(parts) ==
    IF parts = <<>> THEN ""
    ELSE IF Len(parts) = 1 THEN parts[1]
    ELSE parts[1] \o " " \o JoinBlank(Tail(parts))

\* _has_feat(doc, feat)
_has_feat(doc, feat) ==
    LET f == Lower(feat)
    IN  \/ \E i \in 1..Len(doc.features) : Contains(Lower(doc.features[i]), f)
        \/ \E i \in 1..Len(doc.highlights) : Contains(Lower(doc.highlights[i]), f)
        \/ Contains(Lower(JoinBlank(<<doc.display_address, doc.heading, doc.body>>)), f)

---------------------------------------------------------------------------
(* Scoring.  A score is the fraction n / d of twentieths (0.05), so that   *)
(* every weight of the source is a whole number and the price closeness,   *)
(* the one term with a division, is exact.  ok = FALSE is the TypeError    *)
(* Python raises on arithmetic or comparison between str and int.  The     *)
(* source adds the terms as binary floats: two scores that are equal here  *)
(* may differ there in the last bit.                                       *)

Abs(x) == IF x < 0 THEN -x ELSE x

\* the listing's canonical subcategory as _score reads it
HaveSubcategory(doc) ==
    IF TruthyText(doc.subcategory_canonical) THEN doc.subcategory_canonical
    ELSE LET First(cs, hits) ==
                 IF hits # {}
                 THEN cs[CHOOSE i \in hits : \A j \in hits : i <= j]
                 ELSE None
             Resolved(cs) == First(cs, {i \in DOMAIN cs : cs[i] # None})
         IN  Resolved([i \in 1..Len(doc.subcategories) |->
                          canonical_subcategory(doc.subcategories[i])])

\* the features q asks for, canonicalised: [norm_feature(x) for x in ... if x]
Feats(q) ==
    LET fs == SelectSeq(q.features, TruthyText)
    IN  [i \in 1..Len(fs) |-> norm_feature(fs[i])]

\* the subcategory term without the penalty of a mismatch
SubcategoryTerm_no_penalty(doc, q) ==
    LET Term(want) ==
            IF want = None THEN 0
            ELSE IF HaveSubcategory(doc) = want THEN 40 ELSE 0
    IN  Term(canonical_subcategory(
                 OrText(OrText(q.subcategory, q.subcategory_canonical), "")))

\* 2) subcategory
SubcategoryTerm(doc, q) ==
    LET Term(want) ==
            IF want = None THEN 0
            ELSE IF HaveSubcategory(doc) = want THEN 40 ELSE -15
    IN  Term(canonical_subcategory(
                 OrText(OrText(q.subcategory, q.subcategory_canonical), "")))

\* 3) purpose
PurposeTerm(doc, q) ==
    IF TruthyText(q.purpose) /\ TruthyText(doc.purpose) /\ doc.purpose # q.purpose
    THEN -40 ELSE 0

\* the price closeness with the distance always taken over the width of the
\* range, max(1.0, hi - lo)
PriceTerm_over_width(doc, q) ==
    LET Closeness(w2, p2) == [ok |-> TRUE, n |-> 40 * (w2 - Min(w2, p2)), d |-> w2]
        Band(price, lo, hi) ==
            IF IsStr(lo) \/ IsStr(hi) THEN [ok |-> FALSE, n |-> 0, d |-> 1]
            ELSE Closeness(Max(2, 2 * (hi.n - lo.n)),
                           Abs(2 * price.n - (lo.n + hi.n)))
        Term(pmin, pmax, price) ==
            IF ~Truthy(price) THEN [ok |-> TRUE, n |-> 0, d |-> 1]
            ELSE IF ~(Truthy(pmin) \/ Truthy(pmax))
            THEN [ok |-> TRUE, n |-> 5, d |-> 1]
            ELSE Band(price, Or(pmin, price), Or(pmax, price))
    IN  Term(q.price_min, q.price_max, _price_numeric(doc, q.purpose))

\* 4) price closeness, as [ok, n, d]
PriceTerm(doc, q) ==
    LET \* w2 is twice the width, p2 twice abs(price - mid)
        Closeness(w2, p2) == [ok |-> TRUE, n |-> 40 * (w2 - Min(w2, p2)), d |-> w2]
        Band(price, lo, hi) ==
            IF IsStr(lo) \/ IsStr(hi) THEN [ok |-> FALSE, n |-> 0, d |-> 1]
            ELSE Closeness(
                     \* 2 * max(1.0, hi - lo if hi > lo else max(1.0, mid))
                     IF hi.n > lo.n THEN 2 * (hi.n - lo.n) ELSE Max(2, lo.n + hi.n),
                     Abs(2 * price.n - (lo.n + hi.n)))
        Term(pmin, pmax, price) ==
            IF ~Truthy(price) THEN [ok |-> TRUE, n |-> 0, d |-> 1]
            ELSE IF ~(Truthy(pmin) \/ Truthy(pmax))
            THEN [ok |-> TRUE, n |-> 5, d |-> 1]
            ELSE Band(price, Or(pmin, price), Or(pmax, price))
    IN  Term(q.price_min, q.price_max, _price_numeric(doc, q.purpose))

\* the term with the penalty of the unknown value for every value below the
\* minimum
RoomsTerm_flat_penalty(want, have, short, base, cap) ==
    IF want.t = "none" \/ (want.t = "int" /\ want.n = 0) \/ (want.t = "str" /\ want.s = "")
    THEN [ok |-> TRUE, n |-> 0]
    ELSE IF have.t = "none" THEN [ok |-> TRUE, n |-> -5]
    ELSE IF want.t = "str" THEN [ok |-> FALSE, n |-> 0]
    ELSE IF have.n < want.n THEN [ok |-> TRUE, n |-> -5]
    ELSE [ok |-> TRUE, n |-> IF cap < base + 4 * (have.n - want.n)
                             THEN cap ELSE base + 4 * (have.n - want.n)]

\* 5) beds or baths: have is _beds(doc) or _baths(doc), short the penalty
\* per unit short, base and cap those of the bonus; as [ok, n]
RoomsTerm(want, have, short, base, cap) ==
    IF ~Truthy(want) THEN [ok |-> TRUE, n |-> 0]
    ELSE IF IsNone(have) THEN [ok |-> TRUE, n |-> -5]
    ELSE IF IsStr(want) THEN [ok |-> FALSE, n |-> 0]
    ELSE IF have.n < want.n THEN [ok |-> TRUE, n |-> -(short * (want.n - have.n))]
    ELSE [ok |-> TRUE, n |-> Min(cap, base + 4 * (have.n - want.n))]

\* the features term without its cap
FeaturesTerm_uncapped(doc, q) ==
    LET Hits(feats) == Cardinality({i \in 1..Len(feats) : _has_feat(doc, feats[i])})
        Term(feats) == IF feats = <<>> THEN 0 ELSE 10 * Hits(feats)
    IN  Term(Feats(q))

\* 6) features coverage
FeaturesTerm(doc, q) ==
    LET Hits(feats) == Cardinality({i \in 1..Len(feats) : _has_feat(doc, feats[i])})
        Term(feats) == IF feats = <<>> THEN 0 ELSE Min(30, 10 * Hits(feats))
    IN  Term(Feats(q))

\* 7) freshness
FreshnessTerm(doc) == IF Truthy(doc.updated_at) THEN 2 ELSE 0

\* _score(doc, q, text_score); text_score is a whole number
_score(doc, q, text_score) ==
    LET Sum(pt, whole, ok) == [ok |-> pt.ok /\ ok, n |-> whole * pt.d + pt.n, d |-> pt.d]
        Total(pt, beds, baths) ==
            Sum(pt,
                20 * text_score + SubcategoryTerm(doc, q) + PurposeTerm(doc, q)
                + beds.n + baths.n + FeaturesTerm(doc, q) + FreshnessTerm(doc),
                beds.ok /\ baths.ok)
    IN  Total(PriceTerm(doc, q),
              RoomsTerm(q.beds_min, _beds(doc), 20, 12, 40),
              RoomsTerm(q.baths_min, _baths(doc), 16, 10, 34))

\* x > y, x = y for two scores
ScoreGreater(x, y) == x.n * y.d > y.n * x.d
ScoreEqual(x, y) == x.n * y.d = y.n * x.d

\* round(score, 3) in thousandths; no score of the model lies halfway
Round3(x) ==
    LET num == 2 * 50 * x.n + x.d
        den == 2 * x.d
    IN  num \div den

---------------------------------------------------------------------------
(* The filters _run_tier builds.                                           *)

\* _price_filter_or that looks at the same fields whatever the purpose
_price_filter_or_any_purpose(purpose, pmin, pmax) ==
    [on   |-> ~(IsNone(pmin) /\ IsNone(pmax)),
     keys |-> {"price_sort_gbp", "price_sale_gbp", "price_match_sale",
               "price_rent_pcm_gbp", "price_match_rent_pa_inc_tax_month"},
     gte  |-> pmin,
     lte  |-> pmax]

\* _price_filter_or(purpose, pmin, pmax); on = FALSE is the None it returns
_price_filter_or(purpose, pmin, pmax) ==
    [on   |-> ~(IsNone(pmin) /\ IsNone(pmax)),
     keys |-> IF purpose = "rental"
              THEN {"price_rent_pcm_gbp", "price_match_rent_pa_inc_tax_month"}
              ELSE {"price_sort_gbp", "price_sale_gbp", "price_match_sale"},
     gte  |-> pmin,
     lte  |-> pmax]

\* the end of range(min_v, 21)
RangeEnd == 21

\* the rooms filter with its range and its $gte starting at 0 whatever the
\* minimum
RoomsFilter_from_zero(min_v) ==
    IF min_v.t = "none" \/ (min_v.t = "int" /\ min_v.n = 0) \/ (min_v.t = "str" /\ min_v.s = "")
    THEN [kind |-> "none", min |-> 0, strs |-> {}]
    ELSE IF min_v.t # "int" THEN [kind |-> "raise", min |-> 0, strs |-> {}]
    ELSE [kind |-> "filter", min |-> 0,
          strs |-> {"0", "1", "2", "3", "4", "5", "6", "7", "8", "9", "10", "11",
                    "12", "13", "14", "15", "16", "17", "18", "19", "20"}]

\* _beds_filter_or(min_v) and _baths_filter_or(min_v): kind is "none" for the
\* None it returns, "raise" for the TypeError of range() on a str
RoomsFilter(min_v) ==
    IF ~Truthy(min_v) THEN [kind |-> "none", min |-> 0, strs |-> {}]
    ELSE IF ~IsInt(min_v) THEN [kind |-> "raise", min |-> 0, strs |-> {}]
    ELSE [kind |-> "filter", min |-> min_v.n,
          strs |-> {PyStr(IntV(i)) : i \in min_v.n..(RangeEnd - 1)}]

_beds_filter_or(min_v) == RoomsFilter(min_v)
_baths_filter_or(min_v) == RoomsFilter(min_v)

\* _base_filter that leaves the purpose out of the filter
_base_filter_any_purpose(q) ==
    [purpose |-> None,
     status  |-> IF q.status \in {"current", "sold"} THEN q.status ELSE None,
     want    |-> canonical_subcategory(OrText(q.subcategory, q.subcategory_canonical))]

\* _base_filter that leaves the subcategory out of the filter
_base_filter_any_type(q) ==
    [purpose |-> IF q.purpose \in {"sale", "rental"} THEN q.purpose ELSE None,
     status  |-> IF q.status \in {"current", "sold"} THEN q.status ELSE None,
     want    |-> None]

\* _base_filter(q, include_type=True): None for a key f does not get
_base_filter(q) ==
    [purpose |-> IF q.purpose \in {"sale", "rental"} THEN q.purpose ELSE None,
     status  |-> IF q.status \in {"current", "sold"} THEN q.status ELSE None,
     want    |-> canonical_subcategory(OrText(q.subcategory, q.subcategory_canonical))]

\* _text_terms(q)
_text_terms(q) ==
    LET key   == Strip(OrText(OrText(q.location, q.keyword), ""))
        parts == <<key>> \o Feats(q)
    IN  Strip(JoinBlank(SelectSeq(parts, TruthyText)))

---------------------------------------------------------------------------
(* The document store: which documents a filter matches.                   *)

\* {field: {"$gte": b}} and {field: {"$lte": b}}: values of another type than
\* the bound's never match
MongoGte(v, b) ==
    \/ IsInt(v) /\ IsInt(b) /\ v.n >= b.n
    \/ IsStr(v) /\ IsStr(b) /\ ~StrLess(v.s, b.s)

MongoLte(v, b) ==
    \/ IsInt(v) /\ IsInt(b) /\ v.n <= b.n
    \/ IsStr(v) /\ IsStr(b) /\ ~StrLess(b.s, v.s)

MatchPrice(doc, pf) ==
    \E k \in pf.keys :
        /\ IsNone(pf.gte) \/ MongoGte(doc[k], pf.gte)
        /\ IsNone(pf.lte) \/ MongoLte(doc[k], pf.lte)

\* a rooms filter that lets a document pass when it holds none of the fields
MatchRooms_missing_passes(doc, rf, nested, top) ==
    \/ \A k \in nested \cup {top} : doc[k] = [t |-> "none", n |-> 0, s |-> ""]
    \/ \E k \in nested : IsInt(doc[k]) /\ doc[k].n >= rf.min
    \/ \E k \in nested \cup {top} : IsStr(doc[k]) /\ doc[k].s \in rf.strs

\* the $or of a rooms filter over the nested paths nested and the top-level
\* field top
MatchRooms(doc, rf, nested, top) ==
    \/ \E k \in nested : MongoGte(doc[k], IntV(rf.min))
    \/ \E k \in nested \cup {top} : IsStr(doc[k]) /\ doc[k].s \in rf.strs

\* {"$regex": pattern, "$options": "i"} with a literal pattern, on a text or
\* on a list of texts
RegexI(text, pattern) == Contains(Lower(text), Lower(pattern))
RegexAnyI(texts, pattern) == \E i \in 1..Len(texts) : RegexI(texts[i], pattern)

MatchBase(doc, f) ==
    /\ f.purpose = None \/ doc.purpose = f.purpose
    /\ f.status = None \/ doc.status = f.status
    /\ \/ f.want = None
       \/ doc.subcategory_canonical = f.want
       \/ RegexAnyI(doc.subcategories, f.want)

AlphaNum == {Ascii[i] : i \in 1..Len(Ascii)} \ {" ", "(", ")", "-"}

\* the words of a text, lower-cased: the text index's tokens (neither stop
\* words nor stemming are modelled)
RECURSIVE WordsFrom(_, _)
WordsFrom(cs, i) ==
    IF i > Len(cs) THEN {}
    ELSE IF cs[i] \notin AlphaNum THEN WordsFrom(cs, i + 1)
    ELSE LET w == RunFrom(cs, i, AlphaNum)
         IN  {Join(w)} \cup WordsFrom(cs, i + Len(w))

Words(text) == WordsFrom(Chars(Lower(text)), 1)

WordsOfAll(texts) == UNION {Words(texts[i]) : i \in 1..Len(texts)}

\* the words of the fields of the text_search index
IndexedWords(doc) ==
    WordsOfAll(<<doc.display_address, doc.full_address, doc.hidden_address,
                 doc.locality, doc.suburb_or_town, doc.postcode,
                 doc.heading, doc.body>>
               \o doc.highlights \o doc.features \o doc.location_terms
               \o doc.tags \o doc.subcategories)

\* {"$meta": "textScore"}: the number of search words the document has
TextScore(doc, terms) == Cardinality(Words(terms) \cap IndexedWords(doc))

\* the $or of regexes of the fallback tier
MatchLocation(doc, key) ==
    \/ \E t \in {doc.display_address, doc.postcode, doc.full_address,
                 doc.locality, doc.suburb_or_town, doc.body} : RegexI(t, key)
    \/ RegexAnyI(doc.location_terms, key)
    \/ RegexAnyI(doc.highlights, key)
    \/ RegexAnyI(doc.features, key)

\* xs sorted, equals kept in the order they are in; before[<<i, j>>] says
\* whether xs[i] sorts strictly before xs[j]
StableSort(xs, before) ==
    LET n == Len(xs)
        pos(i) == 1 + Cardinality({j \in 1..n :
                          \/ before[<<j, i>>]
                          \/ ~before[<<i, j>>] /\ j < i})
    IN  [k \in 1..n |-> xs[CHOOSE i \in 1..n : pos(i) = k]]

\* cursor.limit(n)
Limited(xs, n) == SubSeq(xs, 1, Min(n, Len(xs)))

\* updated_at descending; a document without one sorts last
Newer(x, y) ==
    IF IsNone(y.updated_at) THEN ~IsNone(x.updated_at)
    ELSE ~IsNone(x.updated_at) /\ x.updated_at.n > y.updated_at.n

---------------------------------------------------------------------------
(* _run_tier.                                                              *)

\* the default of _run_tier's limit
Limit == 40

\* a document as the cursor yields it: with the projected _textScore, which
\* is absent (read as 0) without a $text query
Found(doc, ts) == [doc |-> doc, _textScore |-> ts]

Candidate(doc, ts, score) == [doc |-> doc, _textScore |-> ts, _rankScore |-> score]

\* the documents of c that pass the structured filters of a tier
Structured(c, base, pf, bf, baf) ==
    SelectSeq(c, LAMBDA d :
        /\ MatchBase(d, base)
        /\ pf.on => MatchPrice(d, pf)
        /\ bf.kind = "filter" =>
              MatchRooms(d, bf, {"attributes_bedrooms", "attributes_full_bedrooms"}, "beds")
        /\ baf.kind = "filter" =>
              MatchRooms(d, baf, {"attributes_bathrooms", "attributes_full_bathrooms"}, "baths"))

\* find(base | {"$text": ...}, textScore).sort(textScore, updated_at desc).limit(limit)
FindText(c, base, pf, bf, baf, terms, limit) ==
    LET Better(x, y) ==
            \/ x._textScore > y._textScore
            \/ x._textScore = y._textScore /\ Newer(x.doc, y.doc)
        Hits(ds) == SelectSeq([i \in 1..Len(ds) |->
                                  Found(ds[i], TextScore(ds[i], terms))],
                              LAMBDA x : x._textScore > 0)
        Sorted(hs) ==
            Limited(StableSort(hs, [p \in (1..Len(hs)) \X (1..Len(hs)) |->
                                       Better(hs[p[1]], hs[p[2]])]),
                    limit)
    IN  Sorted(Hits(Structured(c, base, pf, bf, baf)))

\* find({"$and": [base, loc_or]}).sort(updated_at desc).limit(limit); no loc_or
\* when key is empty
FindRegex(c, base, key, limit) ==
    LET off  == [on |-> FALSE, keys |-> {}, gte |-> PyNone, lte |-> PyNone]
        none == [kind |-> "none", min |-> 0, strs |-> {}]
        Better(x, y) == Newer(x.doc, y.doc)
        Hits(ds) == SelectSeq([i \in 1..Len(ds) |-> Found(ds[i], 0)],
                              LAMBDA x : key = "" \/ MatchLocation(x.doc, key))
        Sorted(hs) ==
            Limited(StableSort(hs, [p \in (1..Len(hs)) \X (1..Len(hs)) |->
                                       Better(hs[p[1]], hs[p[2]])]),
                    limit)
    IN  Sorted(Hits(Structured(c, base, off, none, none)))

\* a store whose cursor yields its own documents, not copies: the keys
\* _run_tier writes are written into the collection
Stored_annotated(c, docs) ==
    [i \in 1..Len(c) |->
        IF \E j \in 1..Len(docs) : docs[j].doc._id = c[i]._id
        THEN [c[i] EXCEPT !._textScore = IntV(1), !._rankScore = IntV(1)]
        ELSE c[i]]

\* the collection after _run_tier wrote d["_textScore"] and d["_rankScore"]
\* into the dicts docs it fetched: the cursor decodes a new dict for every
\* document it yields, so the stored documents are as they were
Stored(c, docs) == c

TierDocs(docs, store) == [kind |-> "docs", exc |-> "", docs |-> docs, store |-> store]
TierRaise(exc, store) == [kind |-> "raise", exc |-> exc, docs |-> <<>>, store |-> store]

\* the ranking without its sort: the candidates stay in the store's order
Ranked_as_fetched(found, qq) ==
    LET Scored(cands) ==
            IF \E i \in 1..Len(cands) : ~cands[i]._rankScore.ok
            THEN TierRaise("TypeError", TRUE)
            ELSE TierDocs(cands, TRUE)
    IN  Scored([i \in 1..Len(found) |->
                   Candidate(found[i].doc, found[i]._textScore,
                             _score(found[i].doc, qq, found[i]._textScore))])

\* the ranking with a sort that is not stable: candidates of equal score
\* come out in the reverse of the store's order
Ranked_ties_reversed(found, qq) ==
    LET Better(x, y) == ScoreGreater(x._rankScore, y._rankScore)
        Sorted(cands) ==
            IF \E i \in 1..Len(cands) : ~cands[i]._rankScore.ok
            THEN TierRaise("TypeError", TRUE)
            ELSE TierDocs(StableSort(cands, [p \in (1..Len(cands)) \X (1..Len(cands)) |->
                                                Better(cands[p[1]], cands[p[2]])]),
                          TRUE)
    IN  Sorted([i \in 1..Len(found) |->
                   Candidate(found[Len(found) + 1 - i].doc,
                             found[Len(found) + 1 - i]._textScore,
                             _score(found[Len(found) + 1 - i].doc, qq,
                                    found[Len(found) + 1 - i]._textScore))])

\* the ranking at the end of _run_tier: found is the store's answer
Ranked(found, qq) ==
    LET Better(x, y) == ScoreGreater(x._rankScore, y._rankScore)
        Sorted(cands) ==
            IF \E i \in 1..Len(cands) : ~cands[i]._rankScore.ok
            THEN TierRaise("TypeError", TRUE)
            ELSE TierDocs(StableSort(cands, [p \in (1..Len(cands)) \X (1..Len(cands)) |->
                                                Better(cands[p[1]], cands[p[2]])]),
                          TRUE)
    IN  Sorted([i \in 1..Len(found) |->
                   Candidate(found[i].doc, found[i]._textScore,
                             _score(found[i].doc, qq, found[i]._textScore))])

\* _run_tier(q, tier_name, text, apply_price, apply_beds) on collection c;
\* fails says whether the store raises when it is asked
_run_tier(c, qq, tier, fails) ==
    LET off  == [on |-> FALSE, keys |-> {}, gte |-> PyNone, lte |-> PyNone]
        none == [kind |-> "none", min |-> 0, strs |-> {}]
        Run(base, pf, bf, baf, terms, key) ==
            IF bf.kind = "raise" \/ baf.kind = "raise"
            THEN TierRaise("TypeError", FALSE)
            ELSE IF tier.text /\ terms = "" THEN TierDocs(<<>>, FALSE)
            ELSE IF fails THEN TierRaise("StoreError", TRUE)
            ELSE Ranked(IF tier.text
                        THEN FindText(c, base, pf, bf, baf, terms, Limit)
                        ELSE FindRegex(c, base, key, Limit),
                        qq)
    IN  Run(_base_filter(qq),
            IF tier.apply_price
            THEN _price_filter_or(qq.purpose, qq.price_min, qq.price_max)
            ELSE off,
            IF tier.apply_beds THEN _beds_filter_or(qq.beds_min) ELSE none,
            IF tier.apply_beds THEN _baths_filter_or(qq.baths_min) ELSE none,
            _text_terms(qq),
            Strip(OrText(OrText(qq.location, qq.keyword), "")))

---------------------------------------------------------------------------
(* find_best.                                                              *)

IdKeys == <<"listing_id", "_id", "id">>

\* the tiers with the two relaxations swapped
tiers_swapped ==
    <<[name |-> "text_strict",    text |-> TRUE,  apply_price |-> TRUE,  apply_beds |-> TRUE],
      [name |-> "text_no_beds",   text |-> TRUE,  apply_price |-> TRUE,  apply_beds |-> FALSE],
      [name |-> "text_no_price",  text |-> TRUE,  apply_price |-> FALSE, apply_beds |-> TRUE],
      [name |-> "regex_fallback", text |-> FALSE, apply_price |-> FALSE, apply_beds |-> FALSE]>>

\* the tiers with a second tier that does not drop the price bounds
tiers_price_kept ==
    <<[name |-> "text_strict",    text |-> TRUE,  apply_price |-> TRUE,  apply_beds |-> TRUE],
      [name |-> "text_no_price",  text |-> TRUE,  apply_price |-> TRUE,  apply_beds |-> TRUE],
      [name |-> "text_no_beds",   text |-> TRUE,  apply_price |-> TRUE,  apply_beds |-> FALSE],
      [name |-> "regex_fallback", text |-> FALSE, apply_price |-> FALSE, apply_beds |-> FALSE]>>

tiers ==
    <<[name |-> "text_strict",    text |-> TRUE,  apply_price |-> TRUE,  apply_beds |-> TRUE],
      [name |-> "text_no_price",  text |-> TRUE,  apply_price |-> FALSE, apply_beds |-> TRUE],
      [name |-> "text_no_beds",   text |-> TRUE,  apply_price |-> TRUE,  apply_beds |-> FALSE],
      [name |-> "regex_fallback", text |-> FALSE, apply_price |-> FALSE, apply_beds |-> FALSE]>>

\* how many candidates of a tier the debug dict keeps
TopN == 5

\* the debug dict: candidates is 0 when the dict has no such key, and tiers
\* holds the entries in the order they were set
NoDebug == [candidates |-> 0, tiers |-> <<>>]

\* the debug entry without the [:5]: every candidate of the tier
DebugTop_untruncated(docs) ==
    [i \in 1..Len(docs) |->
        [_id |-> docs[i].doc._id, score |-> (2 * 50 * docs[i]._rankScore.n
                                              + docs[i]._rankScore.d)
                                             \div (2 * docs[i]._rankScore.d)]]

\* [{"_id": ..., "score": round(_rankScore, 3)} for d in docs[:5]]
DebugTop(docs) ==
    [i \in 1..Min(TopN, Len(docs)) |->
        [_id |-> docs[i].doc._id, score |-> Round3(docs[i]._rankScore)]]

\* what find_best has returned or raised; doc is <<>> for None
Pending == [kind |-> "pending", doc |-> <<>>, tier |-> "", exc |-> ""]
Return(doc, tier) == [kind |-> "return", doc |-> doc, tier |-> tier, exc |-> ""]
\* an exception swallowed: "none" returned in its place
Raise_swallowed(exc) == Return(<<>>, "none")
Raise(exc) == [kind |-> "raise", doc |-> <<>>, tier |-> "", exc |-> exc]

\* a call find_best makes: _run_tier(arg), or the store's find_one by field arg
\* or find for tier arg; raised says whether the store raised in it
Call(op, arg, raised) == [op |-> op, arg |-> arg, raised |-> raised]

\* the exhausted tiers reported as an error
Exhausted_raises == Raise("LookupError")

\* return None, "none", debug
Exhausted == Return(<<>>, "none")

\* q = dict(query or {}) with location taken from keyword
Unified(qry) ==
    IF ~TruthyText(qry.location) /\ TruthyText(qry.keyword)
    THEN [qry EXCEPT !.location = qry.keyword]
    ELSE qry

\* find_one that looks at the id field only, whatever the field asked for
FindOne_by_id(c, field, value) ==
    LET hits == {i \in 1..Len(c) : IsStr(c[i].id) /\ c[i].id.s = value}
    IN  IF hits = {} THEN <<>>
        ELSE <<c[CHOOSE i \in hits : \A j \in hits : i <= j]>>

\* find_one({field: value}): the first document whose field is that text
FindOne(c, field, value) ==
    LET hits == {i \in 1..Len(c) :
                    IF field = "_id" THEN c[i]._id = value
                    ELSE IsStr(c[i].id) /\ c[i].id.s = value}
    IN  IF hits = {} THEN <<>>
        ELSE <<c[CHOOSE i \in hits : \A j \in hits : i <= j]>>

\* the q of find_best
QDict == Unified(query)

\* the first loop ending find_best when it leaves a key
NextKey_stops ==
    /\ keyIdx' = keyIdx
    /\ pc' = "done"

\* the first loop moves to the next identifier key, or on to the tiers
NextKey ==
    IF keyIdx < Len(IdKeys)
    THEN /\ keyIdx' = keyIdx + 1
         /\ pc' = "ids"
    ELSE /\ keyIdx' = keyIdx
         /\ pc' = "tiers"

\* for key in (...): q.get(key) is falsy
SkipId ==
    /\ pc = "ids"
    /\ ~Truthy(QDict[IdKeys[keyIdx]])
    /\ NextKey
    /\ UNCHANGED <<idx, scored, reqs, copies, vocab, coll, query, tierIdx, calls, fetched, debug, result>>

\* for key in (...): the lookup by _id and, when that finds nothing, by id;
\* the store may raise in either call
LookupId ==
    /\ pc = "ids"
    /\ Truthy(QDict[IdKeys[keyIdx]])
    /\ \E fail \in {"no", "first", "second"} :
          LET value   == PyStr(QDict[IdKeys[keyIdx]])
              by_id   == FindOne(coll, "_id", value)
              by_id2  == FindOne(coll, "id", value)
              first   == <<Call("find_one", "_id", fail = "first")>>
              both    == <<Call("find_one", "_id", FALSE),
                           Call("find_one", "id", fail = "second")>>
              Stop(r, dbg, cs) ==
                  /\ result' = r
                  /\ debug' = dbg
                  /\ calls' = calls \o cs
                  /\ pc' = "done"
                  /\ UNCHANGED keyIdx
          IN  IF fail = "first" THEN Stop(Raise("StoreError"), debug, first)
              ELSE IF by_id # <<>>
              THEN Stop(Return(by_id, "id_exact"), [debug EXCEPT !.candidates = 1], first)
              ELSE IF fail = "second" THEN Stop(Raise("StoreError"), debug, both)
              ELSE IF by_id2 # <<>>
              THEN Stop(Return(by_id2, "id_exact"), [debug EXCEPT !.candidates = 1], both)
              ELSE /\ NextKey
                   /\ calls' = calls \o both
                   /\ UNCHANGED <<debug, result>>
    /\ UNCHANGED <<idx, scored, reqs, copies, vocab, coll, query, tierIdx, fetched>>

\* one pass of  for name, params in tiers:  and, after the last, the return
\* of "none"
RunTier ==
    /\ pc = "tiers"
    /\ \E fails \in BOOLEAN :
        \E tier \in {tiers[tierIdx]} :
        \E out \in {_run_tier(coll, QDict, tier, fails)} :
        \E dbg \in {[debug EXCEPT !.tiers =
                        Append(@, [name |-> tier.name, top |-> DebugTop(out.docs)])]} :
              /\ calls' = calls \o <<Call("_run_tier", tier.name, FALSE)>>
                                \o (IF out.store
                                    THEN <<Call("find", tier.name, out.exc = "StoreError")>>
                                    ELSE <<>>)
              /\ IF out.kind = "raise"
                 THEN /\ result' = Raise(out.exc)
                      /\ pc' = "done"
                      /\ UNCHANGED <<debug, fetched, tierIdx>>
                 ELSE /\ debug' = dbg
                      /\ fetched' = Append(fetched, [tier |-> tier.name, docs |-> out.docs])
                      /\ IF out.docs # <<>>
                         THEN /\ result' = Return(<<out.docs[1].doc>>, tier.name)
                              /\ pc' = "done"
                              /\ UNCHANGED tierIdx
                         ELSE IF tierIdx = Len(tiers)
                         THEN /\ result' = Exhausted
                              /\ pc' = "done"
                              /\ UNCHANGED tierIdx
                         ELSE /\ tierIdx' = tierIdx + 1
                              /\ UNCHANGED <<result, pc>>
              /\ coll' = Stored(coll, out.docs)
    /\ UNCHANGED <<idx, scored, reqs, copies, vocab, query, keyIdx>>

---------------------------------------------------------------------------
(* The queries find_best is called with.                                   *)

\* the largest price bound and the largest beds or baths minimum of a query
MaxPrice == 3
MaxRooms == 3

OptInt(n) == {PyNone} \cup {IntV(i) : i \in 1..n}

\* an unparseable numeric value
Bad == StrV("abc")

\* a place with every combination of numeric bounds
NumericQueries ==
    {Query([location |-> l, purpose |-> p, price_min |-> a, price_max |-> b,
            beds_min |-> c, baths_min |-> d]) :
        l \in {"Chelsea", "Ken"}, p \in {None, "sale"},
        a \in OptInt(MaxPrice), b \in OptInt(MaxPrice),
        c \in OptInt(MaxRooms), d \in OptInt(MaxRooms)}

\* a place with every combination of the categorical filters
StructuredQueries ==
    {Query([location |-> "Chelsea", purpose |-> p, status |-> st,
            subcategory |-> sc, features |-> fs, beds_min |-> c]) :
        p \in {None, "sale", "rental", "all"},
        st \in {None, "current", "sold", "withdrawn"},
        sc \in {None, "Penthouse", "house"},
        fs \in {<<>>, <<"elevator">>},
        c \in {PyNone, IntV(2)}}

\* direct identifiers, of a listing or of none, with and without a place
IdValues == {PyNone, IntV(101), StrV("102"), StrV("999")}

IdQueries ==
    {Query([listing_id |-> a, _id |-> b, id |-> c,
            location |-> lk[1], keyword |-> lk[2]]) :
        a \in IdValues, b \in IdValues, c \in IdValues,
        lk \in {<<None, None>>, <<"Chelsea", None>>, <<None, "Mayfair">>,
                <<"", "Chelsea">>}}

\* numeric filters that may be unparseable
MalformedQueries ==
    {Query([location |-> "Chelsea", listing_id |-> i, price_min |-> a,
            price_max |-> b, beds_min |-> c, baths_min |-> d]) :
        i \in {PyNone, StrV("101")},
        a \in {PyNone, IntV(2), Bad}, b \in {PyNone, IntV(2), Bad},
        c \in {PyNone, IntV(2), Bad}, d \in {PyNone, IntV(2), Bad}}

\* neither a place nor an identifier
PlacelessQueries ==
    {Query([location |-> l, keyword |-> k, purpose |-> p, status |-> st,
            features |-> fs, beds_min |-> c]) :
        l \in {None, "", " "}, k \in {None, ""},
        p \in {None, "sale"}, st \in {None, "current"},
        fs \in {<<>>, <<"lift">>}, c \in {PyNone, IntV(2)}}

Queries ==
    NumericQueries \cup StructuredQueries \cup IdQueries \cup MalformedQueries
    \cup PlacelessQueries

---------------------------------------------------------------------------
(* find_best called once, on any collection, with any query.               *)

Init ==
    /\ idx = Unused
    /\ vocab = VocabIdle
    /\ coll \in Collections
    /\ query \in Queries
    /\ pc = "ids"
    /\ keyIdx = 1
    /\ tierIdx = 1
    /\ calls = <<>>
    /\ fetched = <<>>
    /\ debug = NoDebug
    /\ result = Pending
    /\ scored = Unused
    /\ reqs = Unused
    /\ copies = Unused

Next == SkipId \/ LookupId \/ RunTier

Spec == Init /\ [][Next]_vars

---------------------------------------------------------------------------
(* find_best called once on a collection of more listings than the debug   *)
(* dict keeps per tier.                                                    *)

TraceQueries ==
    {Query([location |-> l, purpose |-> p, listing_id |-> i,
            price_max |-> b, beds_min |-> c]) :
        l \in {"Chelsea", "Ken"}, p \in {None, "sale"},
        i \in {PyNone, StrV("107"), StrV("999")},
        b \in {PyNone, IntV(2)}, c \in {PyNone, IntV(2)}}

InitTrace ==
    /\ idx = Unused
    /\ vocab = VocabIdle
    /\ coll \in BigCollections
    /\ query \in TraceQueries
    /\ pc = "ids"
    /\ keyIdx = 1
    /\ tierIdx = 1
    /\ calls = <<>>
    /\ fetched = <<>>
    /\ debug = NoDebug
    /\ result = Pending
    /\ scored = Unused
    /\ reqs = Unused
    /\ copies = Unused

SpecTrace == InitTrace /\ [][Next]_vars

---------------------------------------------------------------------------
(* find_best called once with a query that asks for a subcategory and for  *)
(* features, on listings that hold them in their several places.           *)

\* listings of one place; each holds the features of the one before it and
\* more, in the features list, a highlight or the marketing text
FacetPool ==
    <<Doc([_id |-> "504", id |-> IntV(504),
           display_address |-> "4 Chelsea Wharf",
           updated_at |-> IntV(4)]),
      Doc([_id |-> "501", id |-> IntV(501),
           subcategory_canonical |-> "flat", subcategories |-> <<"Apartment">>,
           display_address |-> "1 Chelsea Wharf",
           features |-> <<"Lift">>,
           updated_at |-> IntV(3)]),
      Doc([_id |-> "503", id |-> IntV(503),
           subcategories |-> <<"Houseboat">>,
           display_address |-> "3 Chelsea Wharf",
           features |-> <<"Lift", "Balcony">>,
           updated_at |-> IntV(2)]),
      Doc([_id |-> "502", id |-> IntV(502),
           subcategories |-> <<"Studio", "Town House">>,
           display_address |-> "2 Chelsea Wharf",
           features |-> <<"Lift", "Balcony">>,
           highlights |-> <<"Private garden">>,
           body |-> "Guest WC on the ground floor",
           updated_at |-> IntV(1)])>>

FacetCollections == {SubSeq(FacetPool, 1, n) : n \in 0..Len(FacetPool)}

FacetQueries ==
    {Query([location |-> l, subcategory |-> sc, subcategory_canonical |-> c,
            features |-> fs, listing_id |-> i]) :
        l \in {"Chelsea", "Chel"},
        sc \in {None, "Penthouse", "house", "villa", "boat"},
        c \in {None, "flat"},
        fs \in {<<>>, <<"elevator">>, <<"lift", "elevator">>, <<"gym">>,
                <<"garden", "Balcony", "lift", "wc">>},
        i \in {PyNone, StrV("502")}}

InitFacets ==
    /\ idx = Unused
    /\ vocab = VocabIdle
    /\ coll \in FacetCollections
    /\ query \in FacetQueries
    /\ pc = "ids"
    /\ keyIdx = 1
    /\ tierIdx = 1
    /\ calls = <<>>
    /\ fetched = <<>>
    /\ debug = NoDebug
    /\ result = Pending
    /\ scored = Unused
    /\ reqs = Unused
    /\ copies = Unused

SpecFacets == InitFacets /\ [][Next]_vars

---------------------------------------------------------------------------
(* find_best as a function of the collection and the query, when the store *)
(* answers every call: [result, debug].                                    *)

\* the loop over the tiers from tier i on, dbg being the debug dict so far
RECURSIVE FromTier(_, _, _, _)
FromTier(c, q, i, dbg) ==
    IF i > Len(tiers) THEN [result |-> Exhausted, debug |-> dbg]
    ELSE LET Traced(out, d2) ==
                 IF out.kind = "raise" THEN [result |-> Raise(out.exc), debug |-> dbg]
                 ELSE IF out.docs # <<>>
                 THEN [result |-> Return(<<out.docs[1].doc>>, tiers[i].name),
                       debug |-> d2]
                 ELSE FromTier(c, q, i + 1, d2)
             Fetched(out) ==
                 Traced(out, [dbg EXCEPT !.tiers =
                                 Append(@, [name |-> tiers[i].name,
                                            top |-> DebugTop(out.docs)])])
         IN  Fetched(_run_tier(c, q, tiers[i], FALSE))

\* the loop over the identifier keys from key k on
RECURSIVE FromKey(_, _, _)
FromKey(c, q, k) ==
    IF k > Len(IdKeys) THEN FromTier(c, q, 1, NoDebug)
    ELSE IF ~Truthy(q[IdKeys[k]]) THEN FromKey(c, q, k + 1)
    ELSE LET Either(a, b) == IF a # <<>> THEN a ELSE b
             Looked(doc) ==
                 IF doc # <<>>
                 THEN [result |-> Return(doc, "id_exact"),
                       debug |-> [NoDebug EXCEPT !.candidates = 1]]
                 ELSE FromKey(c, q, k + 1)
         IN  Looked(Either(FindOne(c, "_id", PyStr(q[IdKeys[k]])),
                           FindOne(c, "id", PyStr(q[IdKeys[k]]))))

find_best(c, qry) == FromKey(c, Unified(qry), 1)

---------------------------------------------------------------------------
(* find_best called by several requests at once on one repository (the     *)
(* handler serves each request on a thread of its own).  A request is at    *)
(* the identifier loop ("ids"), about to fetch the candidates of a tier     *)
(* and write their scores ("fetch"), or about to sort them and answer       *)
(* ("rank"); the store answers every call.  copies[o] holds what was        *)
(* written into the dicts of owner o, by _id.                              *)

\* how many requests run side by side
NRequests == 2

PairQueries ==
    {Query([location |-> "Chelsea"]),
     Query([location |-> "Chelsea", purpose |-> "sale", beds_min |-> IntV(2),
            price_max |-> IntV(2)]),
     Query([keyword |-> "Chelsea", beds_min |-> IntV(3), price_max |-> IntV(1)]),
     Query([location |-> "Chelsea", listing_id |-> StrV("102")])}

\* a request as find_best starts on it; raced says whether it fetched while
\* another request was between its fetch and its sort, and alone is what
\* find_best gives for the query when no other request runs
Request(c, qry) ==
    [query |-> qry, q |-> qry, pc |-> "ids", tierIdx |-> 1, docs |-> <<>>,
     debug |-> NoDebug, result |-> Pending, raced |-> FALSE,
     alone |-> find_best(c, qry)]

\* the owner of the dicts a request's cursor yields: they are decoded anew
\* for every find, so each request has its own
OwnCopies_shared(r) == 1
OwnCopies(r) == r

\* the find of a tier, before the ranking: what the cursor yields
TierCursor(c, qq, tier) ==
    LET off  == [on |-> FALSE, keys |-> {}, gte |-> PyNone, lte |-> PyNone]
        none == [kind |-> "none", min |-> 0, strs |-> {}]
        Run(base, pf, bf, baf, terms, key) ==
            IF bf.kind = "raise" \/ baf.kind = "raise"
            THEN TierRaise("TypeError", FALSE)
            ELSE IF tier.text /\ terms = "" THEN TierDocs(<<>>, FALSE)
            ELSE TierDocs(IF tier.text
                          THEN FindText(c, base, pf, bf, baf, terms, Limit)
                          ELSE FindRegex(c, base, key, Limit),
                          TRUE)
    IN  Run(_base_filter(qq),
            IF tier.apply_price
            THEN _price_filter_or(qq.purpose, qq.price_min, qq.price_max)
            ELSE off,
            IF tier.apply_beds THEN _beds_filter_or(qq.beds_min) ELSE none,
            IF tier.apply_beds THEN _baths_filter_or(qq.baths_min) ELSE none,
            _text_terms(qq),
            Strip(OrText(OrText(qq.location, qq.keyword), "")))

\* q = dict(query or {}), the unification and the loop over the identifiers
IdsStep(r) ==
    /\ reqs[r].pc = "ids"
    /\ \E qq \in {Unified(reqs[r].query)} :
          LET Looked(k) ==
                  IF FindOne(coll, "_id", PyStr(qq[IdKeys[k]])) # <<>>
                  THEN FindOne(coll, "_id", PyStr(qq[IdKeys[k]]))
                  ELSE FindOne(coll, "id", PyStr(qq[IdKeys[k]]))
              hits == {k \in 1..Len(IdKeys) :
                          Truthy(qq[IdKeys[k]]) /\ Looked(k) # <<>>}
          IN  reqs' = [reqs EXCEPT ![r] =
                  IF hits # {}
                  THEN [@ EXCEPT !.q = qq, !.pc = "done",
                           !.result = Return(Looked(CHOOSE k \in hits :
                                                       \A j \in hits : k <= j),
                                             "id_exact"),
                           !.debug = [NoDebug EXCEPT !.candidates = 1]]
                  ELSE [@ EXCEPT !.q = qq, !.pc = "fetch"]]
    /\ UNCHANGED <<idx, scored, copies, vocab, coll, query, pc, keyIdx, tierIdx, calls,
                   fetched, debug, result>>

\* _run_tier up to its sort: the find, and d["_textScore"] and
\* d["_rankScore"] written into each dict fetched
FetchStep(r) ==
    /\ reqs[r].pc = "fetch"
    /\ \E out \in {TierCursor(coll, reqs[r].q, tiers[reqs[r].tierIdx])} :
          LET Note(d) == [ts |-> d._textScore,
                          score |-> _score(d.doc, reqs[r].q, d._textScore)]
              Written(old) ==
                  [id \in DOMAIN old |->
                      IF \E i \in 1..Len(out.docs) : out.docs[i].doc._id = id
                      THEN Note(out.docs[CHOOSE i \in 1..Len(out.docs) :
                                             out.docs[i].doc._id = id])
                      ELSE old[id]]
          IN  IF out.kind = "raise"
                 \/ \E i \in 1..Len(out.docs) : ~Note(out.docs[i]).score.ok
              THEN /\ reqs' = [reqs EXCEPT ![r].pc = "done",
                                           ![r].result = Raise("TypeError")]
                   /\ UNCHANGED copies
              ELSE /\ reqs' = [reqs EXCEPT
                         ![r].pc = "rank",
                         ![r].docs = [i \in 1..Len(out.docs) |-> out.docs[i].doc],
                         ![r].raced = \E o \in DOMAIN reqs : o # r /\ reqs[o].pc = "rank"]
                   /\ copies' = [copies EXCEPT ![OwnCopies(r)] = Written(@)]
    /\ UNCHANGED <<idx, scored, vocab, coll, query, pc, keyIdx, tierIdx, calls,
                   fetched, debug, result>>

\* docs.sort(key=_rankScore, reverse=True), then in find_best the debug
\* entry and the return, or the next tier
RankStep(r) ==
    /\ reqs[r].pc = "rank"
    /\ \E mine \in {copies[OwnCopies(r)]} :
       \E cands \in {[i \in 1..Len(reqs[r].docs) |->
                         Candidate(reqs[r].docs[i], mine[reqs[r].docs[i]._id].ts,
                                   mine[reqs[r].docs[i]._id].score)]} :
       \E docs \in {StableSort(cands,
                        [p \in (1..Len(cands)) \X (1..Len(cands)) |->
                            ScoreGreater(cands[p[1]]._rankScore,
                                         cands[p[2]]._rankScore)])} :
       \E dbg \in {[reqs[r].debug EXCEPT !.tiers =
                       Append(@, [name |-> tiers[reqs[r].tierIdx].name,
                                  top |-> DebugTop(docs)])]} :
          reqs' = [reqs EXCEPT ![r] =
              IF docs # <<>>
              THEN [@ EXCEPT !.debug = dbg, !.pc = "done",
                       !.result = Return(<<docs[1].doc>>, tiers[reqs[r].tierIdx].name)]
              ELSE IF reqs[r].tierIdx = Len(tiers)
              THEN [@ EXCEPT !.debug = dbg, !.pc = "done", !.result = Exhausted]
              ELSE [@ EXCEPT !.debug = dbg, !.pc = "fetch", !.tierIdx = @ + 1]]
    /\ UNCHANGED <<idx, scored, copies, vocab, coll, query, pc, keyIdx, tierIdx, calls,
                   fetched, debug, result>>

InitPair ==
    /\ idx = Unused
    /\ vocab = VocabIdle
    /\ coll = SubSeq(Pool, 1, Min(NListings, Len(Pool)))
    /\ query = Query(<<>>)
    /\ pc = "idle"
    /\ keyIdx = 1
    /\ tierIdx = 1
    /\ calls = <<>>
    /\ fetched = <<>>
    /\ debug = NoDebug
    /\ result = Pending
    /\ scored = Unused
    /\ reqs \in [1..NRequests -> {Request(coll, qry) : qry \in PairQueries}]
    /\ copies = [o \in 1..NRequests |->
                    [id \in {coll[i]._id : i \in 1..Len(coll)} |->
                        [ts |-> 0, score |-> [ok |-> TRUE, n |-> 0, d |-> 1]]]]

NextPair == \E r \in 1..NRequests : IdsStep(r) \/ FetchStep(r) \/ RankStep(r)

SpecPair == InitPair /\ [][NextPair]_vars

---------------------------------------------------------------------------
(* The resolver on its own.                                                *)

InitVocab ==
    /\ idx = Unused
    /\ vocab \in VocabCalls
    /\ coll = <<>>
    /\ query = Query(<<>>)
    /\ pc = "idle"
    /\ keyIdx = 1
    /\ tierIdx = 1
    /\ calls = <<>>
    /\ fetched = <<>>
    /\ debug = NoDebug
    /\ result = Pending
    /\ scored = Unused
    /\ reqs = Unused
    /\ copies = Unused

NextVocab == ResolveSubcategory \/ NormFeature \/ NormFeatureAgain

SpecVocab == InitVocab /\ [][NextVocab]_vars

---------------------------------------------------------------------------
(* The scorer on its own: _score called on one listing with one query,     *)
(* the listing holding its beds, baths and price in the forms the          *)
(* collection has them.                                                    *)

\* beds or baths as a listing may hold them
StoredRooms ==
    {PyNone} \cup {IntV(i) : i \in 0..MaxRooms} \cup {StrV("0"), StrV("2")}

\* a price as a listing may hold it, and a bound as a query may
Prices == {PyNone} \cup {IntV(i) : i \in 0..MaxPrice}

ScoreDocs ==
    {[Doc([_id |-> "201", id |-> IntV(201), purpose |-> "sale",
           status |-> "current", display_address |-> "1 Chelsea Green",
           price_sale_gbp |-> p, attributes_full_bathrooms |-> w])
         EXCEPT ![f] = b] :
        f \in {"attributes_bedrooms", "beds"}, b \in StoredRooms,
        w \in {PyNone, IntV(0), IntV(2), StrV("1")}, p \in Prices}

ScoreQueries ==
    {Query([location |-> "Chelsea", price_min |-> a, price_max |-> b,
            beds_min |-> c, baths_min |-> d]) :
        a \in Prices, b \in Prices,
        c \in OptInt(MaxRooms), d \in {PyNone, IntV(2)}}

NotScored ==
    [stage |-> "call", price_read |-> PyNone, beds_read |-> PyNone,
     baths_read |-> PyNone,
     price |-> [ok |-> TRUE, n |-> 0, d |-> 1], beds |-> [ok |-> TRUE, n |-> 0],
     baths |-> [ok |-> TRUE, n |-> 0], score |-> [ok |-> TRUE, n |-> 0, d |-> 1]]

\* _score(doc, q, 0.0), with what it read and the terms it added
ScoreListing ==
    /\ pc = "score"
    /\ scored' = [stage      |-> "done",
                  price_read |-> _price_numeric(coll[1], query.purpose),
                  beds_read  |-> _beds(coll[1]),
                  baths_read |-> _baths(coll[1]),
                  price      |-> PriceTerm(coll[1], query),
                  beds       |-> RoomsTerm(query.beds_min, _beds(coll[1]), 20, 12, 40),
                  baths      |-> RoomsTerm(query.baths_min, _baths(coll[1]), 16, 10, 34),
                  score      |-> _score(coll[1], query, 0)]
    /\ pc' = "done"
    /\ UNCHANGED <<idx, reqs, copies, vocab, coll, query, keyIdx, tierIdx, calls,
                   fetched, debug, result>>

InitScore ==
    /\ idx = Unused
    /\ vocab = VocabIdle
    /\ coll \in {<<d>> : d \in ScoreDocs}
    /\ query \in ScoreQueries
    /\ pc = "score"
    /\ keyIdx = 1
    /\ tierIdx = 1
    /\ calls = <<>>
    /\ fetched = <<>>
    /\ debug = NoDebug
    /\ result = Pending
    /\ scored = NotScored
    /\ reqs = Unused
    /\ copies = Unused

NextScore == ScoreListing

SpecScore == InitScore /\ [][NextScore]_vars

---------------------------------------------------------------------------
(* The price filter on its own: the tiers run on one listing that holds    *)
(* its prices in any of the fields, with a query of any purpose.           *)

\* the price of the feed as it came, where a listing still holds it
FeedPrices == {PyNone, IntV(2)}

PriceDocs ==
    {Doc([_id |-> "301", id |-> IntV(301), purpose |-> p,
          status |-> "current", display_address |-> "9 Chelsea Embankment",
          price_sale_gbp |-> a, price_sort_gbp |-> b, price_rent_pcm_gbp |-> c,
          price_match_sale |-> m, price_match_rent_pa_inc_tax_month |-> r]) :
        p \in {"sale", "rental"},
        a \in OptInt(MaxPrice), b \in OptInt(MaxPrice), c \in OptInt(MaxPrice),
        m \in FeedPrices, r \in FeedPrices}

PriceQueries ==
    {Query([location |-> "Chelsea", purpose |-> p,
            price_min |-> a, price_max |-> b]) :
        p \in {None, "sale", "rental"}, a \in Prices, b \in Prices}

NotFiltered ==
    [stage |-> "call", text_strict |-> <<>>, text_no_price |-> <<>>,
     text_no_beds |-> <<>>]

\* the _id of each document of a tier's list
IdsOf(docs) == [i \in 1..Len(docs) |-> docs[i].doc._id]

\* _run_tier called for each text tier, with the listings each returns
FilterListing ==
    /\ pc = "filter"
    /\ \E q \in {Unified(query)} :
         scored' = [stage |-> "done",
                    text_strict   |-> IdsOf(_run_tier(coll, q, tiers[1], FALSE).docs),
                    text_no_price |-> IdsOf(_run_tier(coll, q, tiers[2], FALSE).docs),
                    text_no_beds  |-> IdsOf(_run_tier(coll, q, tiers[3], FALSE).docs)]
    /\ pc' = "done"
    /\ UNCHANGED <<idx, reqs, copies, vocab, coll, query, keyIdx, tierIdx, calls,
                   fetched, debug, result>>

InitPrice ==
    /\ idx = Unused
    /\ vocab = VocabIdle
    /\ coll \in {<<d>> : d \in PriceDocs}
    /\ query \in PriceQueries
    /\ pc = "filter"
    /\ keyIdx = 1
    /\ tierIdx = 1
    /\ calls = <<>>
    /\ fetched = <<>>
    /\ debug = NoDebug
    /\ result = Pending
    /\ scored = NotFiltered
    /\ reqs = Unused
    /\ copies = Unused

NextPrice == FilterListing

SpecPrice == InitPrice /\ [][NextPrice]_vars

---------------------------------------------------------------------------
(* The beds and baths filters on their own: the tiers run on one listing   *)
(* that holds its beds, or its baths, in any of the three places, with a   *)
(* query that asks for a minimum.                                          *)

\* beds or baths as a listing may hold them, the first number past the
\* range of the filter included
RoomsValues == StoredRooms \cup {StrV(PyStr(IntV(RangeEnd)))}

RoomsDocs ==
    {[Doc([_id |-> "401", id |-> IntV(401), purpose |-> "sale",
           status |-> "current", display_address |-> "4 Chelsea Square"])
         EXCEPT ![fs[1]] = a, ![fs[2]] = b, ![fs[3]] = c] :
        fs \in {<<"attributes_bedrooms", "attributes_full_bedrooms", "beds">>,
                <<"attributes_bathrooms", "attributes_full_bathrooms", "baths">>},
        a \in RoomsValues, b \in RoomsValues, c \in RoomsValues}

RoomsQueries ==
    {Query([location |-> "Chelsea", beds_min |-> m[1], baths_min |-> m[2]]) :
        m \in ({PyNone} \X {IntV(i) : i \in 1..MaxRooms})
              \cup ({IntV(i) : i \in 1..MaxRooms} \X {PyNone})}

InitRooms ==
    /\ idx = Unused
    /\ vocab = VocabIdle
    /\ coll \in {<<d>> : d \in RoomsDocs}
    /\ query \in RoomsQueries
    /\ pc = "filter"
    /\ keyIdx = 1
    /\ tierIdx = 1
    /\ calls = <<>>
    /\ fetched = <<>>
    /\ debug = NoDebug
    /\ result = Pending
    /\ scored = NotFiltered
    /\ reqs = Unused
    /\ copies = Unused

SpecRooms == InitRooms /\ [][NextPrice]_vars

---------------------------------------------------------------------------
(* The index setup: a process serves the requests it receives one after    *)
(* the other; the handler builds a PropertyRepository for each, whose      *)
(* __init__ runs _ensure_indexes.  The collection outlives the process: it *)
(* may hold any of the indexes already.                                    *)

\* the fields of the single-field indexes, in the order they are asked for
StructuredIndexes ==
    <<"purpose", "status", "subcategory_canonical", "price_sort_gbp",
      "price_sale_gbp", "price_rent_pcm_gbp", "updated_at">>

\* the index the collection holds under the name text_search: none, the one
\* _ensure_indexes asks for, or one with other fields or options
TextIndexes == {"absent", "expected", "other_options"}

\* how many requests the process serves
MaxInvocations == 2

\* create_index of the text index raises OperationFailure with code 85,
\* IndexOptionsConflict, when the name is taken by an index that differs
Conflict(text) == text = "other_options"

\* a request arrives: PropertyRepository(cfg), whose __init__ calls
\* _ensure_indexes
Invoke ==
    /\ idx.pc = "idle"
    /\ idx.served < MaxInvocations
    /\ idx' = [idx EXCEPT !.pc = "structured", !.at = 1, !.runs = @ + 1]
    /\ UNCHANGED <<vocab, coll, query, pc, keyIdx, tierIdx, calls, fetched,
                   debug, result, scored, reqs, copies>>

\* one create_index of a single field: nothing changes when the index is
\* there
CreateStructured ==
    /\ idx.pc = "structured"
    /\ idx' = [idx EXCEPT
                 !.plain = @ \cup {StructuredIndexes[idx.at]},
                 !.created = @ + (IF StructuredIndexes[idx.at] \in idx.plain THEN 0 ELSE 1),
                 !.at = IF idx.at = Len(StructuredIndexes) THEN 1 ELSE @ + 1,
                 !.pc = IF idx.at = Len(StructuredIndexes) THEN "text" ELSE @]
    /\ UNCHANGED <<vocab, coll, query, pc, keyIdx, tierIdx, calls, fetched,
                   debug, result, scored, reqs, copies>>

\* create_index(text_keys, name="text_search", ...) in the try block
CreateText ==
    /\ idx.pc = "text"
    /\ IF Conflict(idx.text)
       THEN idx' = [idx EXCEPT !.pc = "drop"]
       ELSE idx' = [idx EXCEPT !.text = "expected", !.pc = "serve",
                               !.created = @ + (IF idx.text = "absent" THEN 1 ELSE 0)]
    /\ UNCHANGED <<vocab, coll, query, pc, keyIdx, tierIdx, calls, fetched,
                   debug, result, scored, reqs, copies>>

\* exc.code == 85: drop_index("text_search")
DropText ==
    /\ idx.pc = "drop"
    /\ idx' = [idx EXCEPT !.text = "absent", !.dropped = @ + 1, !.pc = "recreate"]
    /\ UNCHANGED <<vocab, coll, query, pc, keyIdx, tierIdx, calls, fetched,
                   debug, result, scored, reqs, copies>>

\* and create_index again
RecreateText ==
    /\ idx.pc = "recreate"
    /\ idx' = [idx EXCEPT !.text = "expected", !.created = @ + 1, !.pc = "serve"]
    /\ UNCHANGED <<vocab, coll, query, pc, keyIdx, tierIdx, calls, fetched,
                   debug, result, scored, reqs, copies>>

\* the rest of the handler: the tool calls are answered with the repository
Serve ==
    /\ idx.pc = "serve"
    /\ idx' = [idx EXCEPT !.served = @ + 1, !.pc = "idle"]
    /\ UNCHANGED <<vocab, coll, query, pc, keyIdx, tierIdx, calls, fetched,
                   debug, result, scored, reqs, copies>>

InitIndex ==
    /\ idx \in [plain : SUBSET {StructuredIndexes[i] : i \in 1..Len(StructuredIndexes)},
                text : TextIndexes, pc : {"idle"}, at : {1}, served : {0},
                runs : {0}, created : {0}, dropped : {0}]
    /\ vocab = VocabIdle
    /\ coll = <<>>
    /\ query = Query(<<>>)
    /\ pc = "done"
    /\ keyIdx = 1
    /\ tierIdx = 1
    /\ calls = <<>>
    /\ fetched = <<>>
    /\ debug = NoDebug
    /\ result = Pending
    /\ scored = Unused
    /\ reqs = Unused
    /\ copies = Unused

NextIndex ==
    Invoke \/ CreateStructured \/ CreateText \/ DropText \/ RecreateText \/ Serve

SpecIndex == InitIndex /\ [][NextIndex]_vars

---------------------------------------------------------------------------
(* Properties of find_best (checked under Spec).                           *)

Done == pc = "done"

TierOrder == <<"text_strict", "text_no_price", "text_no_beds", "regex_fallback">>

\* the names of the tiers run so far, in the order they were run
TiersRun ==
    LET Names(rs) == [i \in 1..Len(rs) |-> rs[i].arg]
    IN  Names(SelectSeq(calls, LAMBDA x : x.op = "_run_tier"))

IdExact == result.kind = "return" /\ result.tier = "id_exact"

\* the store raised in some call
StoreRaised == \E i \in 1..Len(calls) : calls[i].raised

\* C1: unless a direct-id lookup answers, the tiers run are a prefix of
\* text_strict, text_no_price, text_no_beds, regex_fallback, the tier to run
\* next is the one after those run, and a tier that returned a candidate is
\* the last one run.
C1_TiersInOrder ==
    /\ Len(TiersRun) <= Len(TierOrder)
    /\ \A i \in 1..Len(TiersRun) : TiersRun[i] = TierOrder[i]
    /\ pc = "tiers" => tiers[tierIdx].name = TierOrder[Len(TiersRun) + 1]
    /\ \A i \in 1..Len(fetched) :
          /\ fetched[i].tier = TierOrder[i]
          /\ fetched[i].docs # <<>> => (Done /\ i = Len(fetched) /\ i = Len(TiersRun))
    /\ (Done /\ result.kind = "return" /\ ~IdExact) =>
          \/ result.tier = "none" /\ TiersRun = TierOrder
          \/ Len(TiersRun) >= 1 /\ result.tier = TierOrder[Len(TiersRun)]

C1_Witness ==
    /\ Done
    /\ result.kind = "return"
    /\ result.tier = "text_no_price"
    /\ TiersRun = <<"text_strict", "text_no_price">>
    /\ fetched[1].docs = <<>>
    /\ fetched[2].docs # <<>>

\* C2: find_best returning tier T has fetched nothing in the tiers before T,
\* and returns a candidate fetched in T whose score, as _score computes it,
\* no other candidate fetched in T exceeds.
C2_BestOfFirstTier ==
    (Done /\ result.kind = "return" /\ ~IdExact /\ result.tier # "none") =>
        \E t \in 1..Len(fetched) :
            /\ t = Len(fetched)
            /\ fetched[t].tier = result.tier
            /\ \A i \in 1..(t - 1) : fetched[i].docs = <<>>
            /\ \E i \in 1..Len(fetched[t].docs) :
                  /\ result.doc = <<fetched[t].docs[i].doc>>
                  /\ fetched[t].docs[i].doc \in {coll[n] : n \in 1..Len(coll)}
                  /\ \A j \in 1..Len(fetched[t].docs) :
                        ~ScoreGreater(
                            _score(fetched[t].docs[j].doc, QDict,
                                   fetched[t].docs[j]._textScore),
                            _score(fetched[t].docs[i].doc, QDict,
                                   fetched[t].docs[i]._textScore))

\* the returned listing is not the first the store gave, and beats another
C2_Witness ==
    /\ Done
    /\ result.kind = "return"
    /\ result.tier = "text_strict"
    /\ Len(fetched[1].docs) >= 3
    /\ result.doc[1]._id = "102"
    /\ ScoreGreater(fetched[1].docs[1]._rankScore, fetched[1].docs[2]._rankScore)

\* neither a location nor a keyword, and no direct identifier
Placeless ==
    /\ ~TruthyText(query.location)
    /\ ~TruthyText(query.keyword)
    /\ \A k \in 1..Len(IdKeys) : ~Truthy(query[IdKeys[k]])

\* C3, as claimed: a query with neither location nor keyword nor identifier
\* runs no tier and ends in an error, never in a listing or in "none".
C3_AsClaimed ==
    Placeless => /\ TiersRun = <<>>
                 /\ Done => result.kind = "raise"

\* the placeless query is answered with a listing by the fallback tier
C3_Witness ==
    /\ Done
    /\ Placeless
    /\ query.features = <<>>
    /\ TiersRun = TierOrder
    /\ result.kind = "return"
    /\ result.tier = "regex_fallback"
    /\ result.doc # <<>>

\* the identifier keys of the query whose value is the _id of a listing
IdHits ==
    {k \in 1..Len(IdKeys) :
        /\ Truthy(query[IdKeys[k]])
        /\ \E n \in 1..Len(coll) : coll[n]._id = PyStr(query[IdKeys[k]])}

\* C4: when an identifier of the query is the id of a listing and the store
\* answers, find_best returns the listing of the first such identifier (in
\* the order listing_id, _id, id) with tier id_exact and the debug dict
\* {"candidates": 1}, and runs no tier: the result is determined by the
\* identifiers and the collection alone, whatever keyword and location are.
C4_IdExact ==
    (Done /\ ~StoreRaised /\ IdHits # {}) =>
        \E k \in IdHits :
            /\ \A j \in IdHits : k <= j
            /\ result.kind = "return"
            /\ result.tier = "id_exact"
            /\ Len(result.doc) = 1
            /\ result.doc[1]._id = PyStr(query[IdKeys[k]])
            /\ result.doc[1] \in {coll[n] : n \in 1..Len(coll)}
            /\ debug = [candidates |-> 1, tiers |-> <<>>]
            /\ TiersRun = <<>>
            /\ fetched = <<>>

\* the first identifier names no listing, the second does; a place is given
C4_Witness ==
    /\ Done
    /\ query.listing_id = StrV("999")
    /\ query._id = StrV("102")
    /\ query.location = "Chelsea"
    /\ IdExact
    /\ result.doc[1]._id = "102"

\* C5: when the four tiers have all returned no candidate, find_best has
\* returned no listing and the tier "none", without raising, and the debug
\* dict has one entry for each of the four tiers, in their order, each an
\* empty list.
C5_NoneAfterFourTiers ==
    /\ (Len(fetched) = Len(TierOrder) /\ \A i \in 1..Len(fetched) : fetched[i].docs = <<>>)
          => /\ Done
             /\ result = [kind |-> "return", doc |-> <<>>, tier |-> "none", exc |-> ""]
             /\ debug.candidates = 0
             /\ Len(debug.tiers) = Len(TierOrder)
             /\ \A i \in 1..Len(TierOrder) :
                   debug.tiers[i] = [name |-> TierOrder[i], top |-> <<>>]
    /\ (result.kind = "return" /\ result.tier = "none")
          => /\ result.doc = <<>>
             /\ TiersRun = TierOrder
             /\ \A i \in 1..Len(fetched) : fetched[i].docs = <<>>

C5_Witness ==
    /\ Done
    /\ coll # <<>>
    /\ query.location = "Chelsea"
    /\ result.kind = "return"
    /\ result.tier = "none"
    /\ Len(debug.tiers) = 4

\* C6: when the store raises in a call, an id lookup or a tier's fetch, that
\* call is the last find_best makes and find_best ends in the store's error:
\* the call is not made again, no later tier runs, and neither a listing nor
\* "none" is returned.
C6_StoreErrorPropagates ==
    \A i \in 1..Len(calls) :
        calls[i].raised =>
            /\ i = Len(calls)
            /\ Done
            /\ result = [kind |-> "raise", doc |-> <<>>, tier |-> "", exc |-> "StoreError"]

\* the store raises in the fetch of the second tier
C6_Witness ==
    /\ Done
    /\ Len(calls) = 4
    /\ calls[4] = [op |-> "find", arg |-> "text_no_price", raised |-> TRUE]
    /\ result.kind = "raise"
    /\ result.exc = "StoreError"
    /\ Len(fetched) = 1

NumericKeys == {"beds_min", "baths_min", "price_min", "price_max"}

\* a text that int() does not read
Unparseable(v) == IsStr(v) /\ v.s # "" /\ IsNone(IntOfText(v.s))

\* the query with its unparseable numeric fields removed
Cleaned(qry) ==
    [f \in DOMAIN qry |->
        IF f \in NumericKeys /\ Unparseable(qry[f]) THEN PyNone ELSE qry[f]]

\* C7, as claimed: with an unparseable beds_min, baths_min, price_min or
\* price_max find_best does not fail, and its outcome is that of the query
\* without the field.
C7_AsClaimed ==
    (Done /\ ~StoreRaised /\ \E f \in NumericKeys : Unparseable(query[f])) =>
        /\ result.kind # "raise"
        /\ [result |-> result, debug |-> debug] = find_best(coll, Cleaned(query))

\* an unparseable beds_min ends find_best in a TypeError in the first tier
C7_Witness ==
    /\ Done
    /\ query.beds_min = Bad
    /\ query.price_min = PyNone
    /\ query.price_max = PyNone
    /\ query.baths_min = PyNone
    /\ TiersRun = <<"text_strict">>
    /\ ~StoreRaised
    /\ result.kind = "raise"
    /\ result.exc = "TypeError"

\* every candidate fetched so far has purpose p / status st
FetchedAllHave(field, value) ==
    \A i \in 1..Len(fetched) :
        \A j \in 1..Len(fetched[i].docs) : fetched[i].docs[j].doc[field] = value

---------------------------------------------------------------------------
(* Properties of the vocabulary resolver (checked under SpecVocab).        *)

SubcatDone == vocab.op = "canonical_subcategory" /\ vocab.stage = "done"
FeatureDone == vocab.op = "norm_feature" /\ vocab.stage = "done"

\* is some vocabulary entry within the cutoff of text t
SomeEntryClose(t) ==
    \E k \in LookupKeys :
        LET r == Ratio(t, k) IN RatioAtLeast(r[1], r[2])

\* C9: canonical_subcategory returns house, flat, other or None; a canonical
\* value resolves to itself and a synonym of the table to its canonical
\* value, whatever its case and the blanks around it ('Penthouse' to flat,
\* 'terraced house' to house); a text that is no vocabulary entry and is
\* close to none ('xyz-unknown-token') resolves to None.
C9_SubcategoryResolves ==
    SubcatDone =>
        /\ vocab.out \in {"house", "flat", "other", None}
        /\ \A c \in {"house", "flat", "other"} :
              (vocab.base = c \/ vocab.base \in _SUBCAT_CANON[c]) => vocab.out = c
        /\ vocab.arg = "Penthouse" => vocab.out = "flat"
        /\ vocab.arg = "terraced house" => vocab.out = "house"
        /\ vocab.base \in UnknownSubcats \cup {None, ""} => vocab.out = None
        /\ (vocab.base \notin LookupKeys \cup {None} /\ ~SomeEntryClose(vocab.base))
              => vocab.out = None

C9_Witness ==
    /\ SubcatDone
    /\ vocab.arg = " PENTHOUSE "
    /\ vocab.out = "flat"

\* C10: norm_feature maps the canonical amenities and their synonyms to the
\* canonical amenity ('roof garden' and 'roof terrace' to 'private garden',
\* 'elevator' to 'lift'), returns any other text trimmed and lower-cased, and
\* gives the same result when applied to its own result.
C10_NormFeatureIdempotent ==
    FeatureDone =>
        /\ \A c \in DOMAIN _FEATURE_MAP :
              (vocab.base = c \/ vocab.base \in _FEATURE_MAP[c]) => vocab.out = c
        /\ vocab.base \in {"roof garden", "roof terrace"}
              => vocab.out = "private garden"
        /\ vocab.base = "elevator" => vocab.out = "lift"
        /\ vocab.base \in OtherFeatures => vocab.out = vocab.base
        /\ vocab.base \in {None, ""} => vocab.out = ""
        /\ vocab.out2 = vocab.out

C10_Witness ==
    /\ FeatureDone
    /\ vocab.arg = "ROOF TERRACE "
    /\ vocab.out = "private garden"
    /\ vocab.out2 = "private garden"

---------------------------------------------------------------------------
(* Properties of the beds and baths handling (checked under Spec).         *)

BedsFields == {"attributes_bedrooms", "attributes_full_bedrooms", "beds"}
BathsFields == {"attributes_bathrooms", "attributes_full_bathrooms", "baths"}

\* the listing holds no value under any of the fields
NoData(doc, fields) == \A f \in fields : IsNone(doc[f])

TierNamed(name) == CHOOSE t \in {tiers[i] : i \in 1..Len(tiers)} : t.name = name

\* the _id of the candidates tier name gets for query qq
CandidateIds(qq, name) ==
    LET Ids(docs) == {docs[i].doc._id : i \in 1..Len(docs)}
    IN  Ids(_run_tier(coll, qq, TierNamed(name), FALSE).docs)

\* score s is score s0 plus n twentieths
ScoreShifted(s, s0, n) == s.d = s0.d /\ s.n = s0.n + n * s0.d

\* C11, as claimed: a listing without beds (baths) data that a tier would
\* fetch for the query without its beds_min (baths_min) is fetched by that
\* tier for the query with it, and its beds (baths) term is the term of a
\* listing whose value is 0.
C11_AsClaimed ==
    \A k \in {<<"beds_min", BedsFields, 20, 12, 40>>,
              <<"baths_min", BathsFields, 16, 10, 34>>} :
        Truthy(QDict[k[1]]) =>
            \A e \in {fetched[i] : i \in 1..Len(fetched)} :
                LET got    == {e.docs[i].doc._id : i \in 1..Len(e.docs)}
                    Kept(ids) ==
                        \A d \in {coll[i] : i \in 1..Len(coll)} :
                            (NoData(d, k[2]) /\ d._id \in ids) => d._id \in got
                IN  /\ Kept(CandidateIds([QDict EXCEPT ![k[1]] = PyNone], e.tier))
                    /\ \A i \in 1..Len(e.docs) :
                          NoData(e.docs[i].doc, k[2]) =>
                              ScoreShifted(
                                  e.docs[i]._rankScore,
                                  _score(e.docs[i].doc, [QDict EXCEPT ![k[1]] = PyNone],
                                         e.docs[i]._textScore),
                                  RoomsTerm(QDict[k[1]], IntV(0), k[3], k[4], k[5]).n)

\* C11: a listing without beds (baths) data is a candidate only of the tiers
\* without the beds/baths filter (text_no_beds, regex_fallback) when the query
\* has a beds_min (baths_min), and its beds (baths) term there is -0.25.
C11_UnknownRooms ==
    \A k \in {<<"beds_min", BedsFields>>, <<"baths_min", BathsFields>>} :
        Truthy(QDict[k[1]]) =>
            \A e \in {fetched[i] : i \in 1..Len(fetched)} :
                \A i \in 1..Len(e.docs) :
                    NoData(e.docs[i].doc, k[2]) =>
                        /\ e.tier \in {"text_no_beds", "regex_fallback"}
                        /\ ScoreShifted(
                               e.docs[i]._rankScore,
                               _score(e.docs[i].doc, [QDict EXCEPT ![k[1]] = PyNone],
                                      e.docs[i]._textScore),
                               -5)

\* listing 103, which has neither beds nor baths, is the candidate of the
\* fallback tier for a query with both minimums
C11_Witness ==
    /\ Done
    /\ result.kind = "return"
    /\ result.tier = "regex_fallback"
    /\ Truthy(QDict.beds_min) /\ Truthy(QDict.baths_min)
    /\ result.doc[1]._id = "103"
    /\ NoData(result.doc[1], BedsFields \cup BathsFields)

---------------------------------------------------------------------------
(* Properties of the scorer (checked under SpecScore).                     *)

Scored == scored.stage = "done"

\* the number a stored value denotes: an int itself, a text of digits the
\* number it spells; PyNone for no value
Denoted(v) == IF IsInt(v) THEN v ELSE _intish(v)

\* the beds value the scored listing holds
StoredBeds ==
    Denoted(IF ~IsNone(coll[1].attributes_bedrooms)
            THEN coll[1].attributes_bedrooms ELSE coll[1].beds)

\* C12, as claimed: with beds_min m >= 1 the beds term is -0.25 when the
\* listing holds no beds value, -1.0 * (m - b) < 0 when it holds b < m (a
\* stored 0 included), and min(2.0, 0.6 + 0.2 * (b - m)) > 0 when it holds
\* b >= m; the score is the score without beds_min plus that term.
C12_AsClaimed ==
    (Scored /\ Truthy(query.beds_min)) =>
        LET m == query.beds_min.n
            Term(b) ==
                IF IsNone(b) THEN -5
                ELSE IF b.n < m THEN -(20 * (m - b.n))
                ELSE Min(40, 12 + 4 * (b.n - m))
        IN  /\ scored.beds.ok
            /\ scored.beds.n = Term(StoredBeds)
            /\ (~IsNone(StoredBeds) /\ StoredBeds.n < m) => scored.beds.n < 0
            /\ (~IsNone(StoredBeds) /\ StoredBeds.n >= m) => scored.beds.n > 0
            /\ ScoreShifted(scored.score,
                            _score(coll[1], [query EXCEPT !.beds_min = PyNone], 0),
                            scored.beds.n)

\* a listing that holds the number 0 for its beds is scored as one whose beds
\* are unknown
C12_Witness ==
    /\ Scored
    /\ coll[1].attributes_bedrooms = IntV(0)
    /\ query.beds_min = IntV(2)
    /\ IsNone(scored.beds_read)
    /\ scored.beds.n = -5

\* the price term is n twentieths
PriceTermIs(n) == scored.price.ok /\ scored.price.n = n * scored.price.d

\* C13, as claimed: a listing whose price is the midpoint of
\* [price_min, price_max], price_min <= price_max, gets a price term of 2.0, so does one whose price
\* is price_min = price_max, and the price term is never below 0 nor above 2.0.
C13_AsClaimed ==
    (Scored /\ Truthy(scored.price_read)) =>
        /\ (IsInt(query.price_min) /\ IsInt(query.price_max)
            /\ query.price_min.n <= query.price_max.n
            /\ 2 * scored.price_read.n = query.price_min.n + query.price_max.n)
                => PriceTermIs(40)
        /\ (query.price_min = scored.price_read /\ query.price_max = scored.price_read)
                => PriceTermIs(40)
        /\ scored.price.ok
        /\ 0 <= scored.price.n
        /\ scored.price.n <= 40 * scored.price.d

\* a price_min of 0 is read as no bound: the listing at the midpoint of
\* [0, 2] gets 1.0
C13_Witness ==
    /\ Scored
    /\ query.price_min = IntV(0)
    /\ query.price_max = IntV(2)
    /\ scored.price_read = IntV(1)
    /\ PriceTermIs(20)

---------------------------------------------------------------------------
(* Properties of the debug dict (checked under SpecTrace).                 *)

\* C14: the debug dict find_best returns has one entry per tier run, in the
\* order they were run, and none for any other tier; the entry of a tier
\* holds the _id and the rounded score of its first 5 candidates (of all of
\* them when they are fewer), in descending order of score and such that no
\* candidate left out scores higher; and when a listing is returned it is the
\* first of the entry of the last tier run.  A direct-id answer has no tier
\* entry.
C14_DebugTrace ==
    /\ (Done /\ result.kind = "return" /\ ~IdExact) =>
          /\ Len(debug.tiers) = Len(TiersRun)
          /\ Len(fetched) = Len(TiersRun)
          /\ \A i \in 1..Len(debug.tiers) :
                LET top  == debug.tiers[i].top
                    docs == fetched[i].docs
                IN  /\ debug.tiers[i].name = TiersRun[i]
                    /\ Len(top) <= 5
                    /\ Len(top) = Min(5, Len(docs))
                    /\ \A j \in 1..Len(top) :
                          /\ top[j]._id = docs[j].doc._id
                          /\ top[j].score = Round3(docs[j]._rankScore)
                          /\ \A k \in (j + 1)..Len(top) : top[j].score >= top[k].score
                          /\ \A k \in (j + 1)..Len(docs) :
                                ~ScoreGreater(docs[k]._rankScore, docs[j]._rankScore)
          /\ result.tier # "none" =>
                /\ debug.tiers[Len(debug.tiers)].top # <<>>
                /\ debug.tiers[Len(debug.tiers)].top[1]._id = result.doc[1]._id
          /\ result.tier = "none" =>
                \A i \in 1..Len(debug.tiers) : debug.tiers[i].top = <<>>
    /\ (Done /\ IdExact) => debug.tiers = <<>>

\* a tier with more than 5 candidates: the entry keeps 5 of them
C14_Witness ==
    /\ Done
    /\ result.kind = "return"
    /\ result.tier = "text_strict"
    /\ Len(fetched[1].docs) > 5
    /\ Len(debug.tiers[1].top) = 5
    /\ debug.tiers[1].top[1]._id = result.doc[1]._id

---------------------------------------------------------------------------
(* Frame of find_best (checked under Spec).                                *)

\* C15: no step of find_best, an identifier lookup or a tier, answered or
\* failed, changes the collection: the listings and every field of each stay
\* as they are, and no stored listing gets the _textScore and _rankScore that
\* _run_tier writes into the candidates it fetched.
C15_ReadOnly ==
    [][/\ coll' = coll
       /\ \A i \in 1..Len(coll') :
             IsNone(coll'[i]._textScore) /\ IsNone(coll'[i]._rankScore)]_vars

\* after a failed identifier lookup a tier has fetched and scored a listing,
\* which is in the collection without the score
C15_Witness ==
    /\ Done
    /\ \E i \in 1..Len(calls) : calls[i].op = "find_one"
    /\ \E i \in 1..Len(fetched) :
          /\ fetched[i].docs # <<>>
          /\ fetched[i].docs[1]._rankScore.n > 0
          /\ \E k \in 1..Len(coll) :
                /\ coll[k] = fetched[i].docs[1].doc
                /\ IsNone(coll[k]._rankScore)

---------------------------------------------------------------------------
(* Requests side by side (checked under SpecPair).                         *)

\* C16: however the steps of the requests interleave, the collection stays
\* as it is and a request that has ended has the result and the debug dict
\* that find_best gives for its query on that collection when called alone.
C16_Independent ==
    /\ coll = SubSeq(Pool, 1, Min(NListings, Len(Pool)))
    /\ \A r \in DOMAIN reqs :
          reqs[r].pc = "done" =>
              [result |-> reqs[r].result, debug |-> reqs[r].debug] = reqs[r].alone

\* two requests with different queries have ended, the second having fetched
\* and scored listing 102 while the first, which had fetched and scored it
\* too, had not yet sorted
C16_Witness ==
    /\ \A r \in DOMAIN reqs : reqs[r].pc = "done" /\ reqs[r].result.kind = "return"
    /\ reqs[1].query # reqs[2].query
    /\ reqs[2].raced
    /\ reqs[1].result.tier = "text_strict"
    /\ reqs[2].result.tier = "text_strict"
    /\ copies[1]["102"].score # copies[2]["102"].score
    /\ copies[1]["102"].ts > 0 /\ copies[2]["102"].ts > 0

---------------------------------------------------------------------------
(* Identifiers that match nothing (checked under Spec).                    *)

\* the query has an identifier, and no identifier it has is the _id or the
\* id of a listing
IdMisses ==
    /\ \E k \in 1..Len(IdKeys) : Truthy(QDict[IdKeys[k]])
    /\ \A k \in 1..Len(IdKeys) :
          Truthy(QDict[IdKeys[k]]) =>
              /\ FindOne(coll, "_id", PyStr(QDict[IdKeys[k]])) = <<>>
              /\ FindOne(coll, "id", PyStr(QDict[IdKeys[k]])) = <<>>

WithoutIds(qry) ==
    [qry EXCEPT !.listing_id = PyNone, !._id = PyNone, !.id = PyNone]

\* C17: when the store answers every call and no identifier of the query
\* matches a listing, find_best has looked each identifier up, has gone on to
\* text_strict, and ends with the result and the debug dict it gives for the
\* query without its identifiers.
C17_MissFallsThrough ==
    (Done /\ ~StoreRaised /\ IdMisses) =>
        /\ TiersRun # <<>>
        /\ TiersRun[1] = "text_strict"
        /\ \E i \in 1..Len(calls) : calls[i].op = "find_one"
        /\ \A i \in 1..Len(calls) : \A j \in 1..Len(calls) :
              (calls[i].op = "find_one" /\ calls[j].op = "_run_tier") => i < j
        /\ [result |-> result, debug |-> debug] = find_best(coll, WithoutIds(query))

\* an identifier of no listing is looked up by _id and by id, then a tier
\* returns a listing
C17_Witness ==
    /\ Done
    /\ ~StoreRaised
    /\ IdMisses
    /\ query.listing_id = StrV("999")
    /\ result.kind = "return"
    /\ result.doc # <<>>
    /\ Len(TiersRun) >= 1
    /\ Len(SelectSeq(calls, LAMBDA x : x.op = "find_one")) >= 2

---------------------------------------------------------------------------
(* The filters of each tier (checked under Spec).                          *)

\* the _id of the listings of the collection that pass the purpose, status
\* and subcategory filter, the price bounds if price is set, the beds and
\* baths minimums if rooms is set, and the free-text search if text is set,
\* else the substring match
Passing(price, rooms, text) ==
    LET Pass(base, pf, bf, baf, terms, key) ==
            {d._id : d \in {x \in {coll[i] : i \in 1..Len(coll)} :
                /\ MatchBase(x, base)
                /\ (price /\ pf.on) => MatchPrice(x, pf)
                /\ (rooms /\ bf.kind = "filter") =>
                      MatchRooms(x, bf, {"attributes_bedrooms",
                                         "attributes_full_bedrooms"}, "beds")
                /\ (rooms /\ baf.kind = "filter") =>
                      MatchRooms(x, baf, {"attributes_bathrooms",
                                          "attributes_full_bathrooms"}, "baths")
                /\ IF text THEN TextScore(x, terms) > 0
                   ELSE key = "" \/ MatchLocation(x, key)}}
    IN  Pass(_base_filter(QDict),
             _price_filter_or(QDict.purpose, QDict.price_min, QDict.price_max),
             _beds_filter_or(QDict.beds_min), _baths_filter_or(QDict.baths_min),
             _text_terms(QDict),
             Strip(OrText(OrText(QDict.location, QDict.keyword), "")))

\* C18: the candidates of text_strict are the listings that pass the base
\* filter, the price bounds, the beds/baths minimums and the text search;
\* those of text_no_price the same without the price bounds; those of
\* text_no_beds the same without the beds/baths minimums; those of
\* regex_fallback the listings that pass the base filter and the
\* case-insensitive substring match, whatever their price, beds and baths.
C18_TierFilters ==
    \A e \in {fetched[i] : i \in 1..Len(fetched)} :
        {e.docs[i].doc._id : i \in 1..Len(e.docs)} =
            (CASE e.tier = "text_strict"    -> Passing(TRUE, TRUE, TRUE)
               [] e.tier = "text_no_price"  -> Passing(FALSE, TRUE, TRUE)
               [] e.tier = "text_no_beds"   -> Passing(TRUE, FALSE, TRUE)
               [] e.tier = "regex_fallback" -> Passing(FALSE, FALSE, FALSE))

\* all four tiers ran with price bounds and a beds minimum: the first three
\* found nothing and the fallback a listing outside the bounds
C18_Witness ==
    /\ Done
    /\ Len(fetched) = 4
    /\ Truthy(QDict.price_max) /\ Truthy(QDict.beds_min)
    /\ fetched[4].docs # <<>>
    /\ Passing(TRUE, FALSE, FALSE) = {}
    /\ Passing(FALSE, FALSE, TRUE) = {}

---------------------------------------------------------------------------
(* The one listing of a place short of baths (checked under Spec).         *)

\* the baths value a listing holds: the first of its three fields that holds
\* one
StoredBaths(doc) ==
    Denoted(IF ~IsNone(doc.attributes_bathrooms) THEN doc.attributes_bathrooms
            ELSE IF ~IsNone(doc.attributes_full_bathrooms)
            THEN doc.attributes_full_bathrooms
            ELSE doc.baths)

\* a query without identifier whose numeric filters are numbers, with a
\* baths_min, answered by the store, and d the only listing that passes its
\* text search and its purpose/status/subcategory filter, holding fewer baths
\* than baths_min
OnlyListingShort(d) ==
    /\ Done /\ ~StoreRaised
    /\ \A k \in 1..Len(IdKeys) : ~Truthy(QDict[IdKeys[k]])
    /\ \A k \in NumericKeys : ~IsStr(QDict[k])
    /\ Truthy(QDict.baths_min)
    /\ Passing(FALSE, FALSE, TRUE) = {d._id}
    /\ ~IsNone(StoredBaths(d))
    /\ StoredBaths(d).n < QDict.baths_min.n

\* text_strict and text_no_price found nothing, text_no_beds returned d, and
\* the score of d is its score without baths_min less 0.8 per bath short
ReturnedFromNoBeds(d) ==
    /\ Len(fetched) = 3
    /\ fetched[1].docs = <<>>
    /\ fetched[2].docs = <<>>
    /\ result = Return(<<d>>, "text_no_beds")
    /\ Len(fetched[3].docs) = 1
    /\ ScoreShifted(fetched[3].docs[1]._rankScore,
                    _score(d, [QDict EXCEPT !.baths_min = PyNone],
                           fetched[3].docs[1]._textScore),
                    -(16 * (QDict.baths_min.n - StoredBaths(d).n)))

---------------------------------------------------------------------------
(* The price filter: which of a listing's price fields it looks at.        *)

Filtered == pc = "done" /\ scored.stage = "done"

\* the query has a price bound
Bounded == ~IsNone(query.price_min) \/ ~IsNone(query.price_max)

\* a number that satisfies every bound the query has
WithinBounds(v) ==
    /\ IsInt(v)
    /\ IsNone(query.price_min) \/ v.n >= query.price_min.n
    /\ IsNone(query.price_max) \/ v.n <= query.price_max.n

\* the listing is a candidate of the tier that drops the price filter, so
\* only the price filter can keep it out of the two tiers that apply it
PassesTheRest == scored.text_no_price = <<"301">>

PassesPrice == scored.text_strict = <<"301">> /\ scored.text_no_beds = <<"301">>
FailsPrice == scored.text_strict = <<>> /\ scored.text_no_beds = <<>>

\* the sale price, the unified sort price and the rent per month of a
\* listing, each in the field the sync writes and in the field of the feed
AnyPriceFields ==
    {"price_sale_gbp", "price_match_sale", "price_sort_gbp",
     "price_rent_pcm_gbp", "price_match_rent_pa_inc_tax_month"}

\* C20 as claimed: in the tiers that apply the price filter a listing passes
\* the filter if and only if one of its price fields (sale, sort, rent per
\* month) satisfies every bound of the query, whatever the query's purpose
C20_AsClaimed ==
    (Filtered /\ Bounded /\ PassesTheRest) =>
        /\ PassesPrice \/ FailsPrice
        /\ PassesPrice <=> \E k \in AnyPriceFields : WithinBounds(coll[1][k])

\* the fields the filter looks at for a query of a purpose
FieldsFor(purpose) ==
    IF purpose = "rental"
    THEN {"price_rent_pcm_gbp", "price_match_rent_pa_inc_tax_month"}
    ELSE {"price_sale_gbp", "price_match_sale", "price_sort_gbp"}

\* C20: in the tiers that apply the price filter a listing passes the filter
\* of a query with a price bound if and only if one of the fields the filter
\* looks at for the query's purpose satisfies every bound of the query: the
\* rent per month fields for a rental query, the sale and sort price fields
\* for any other query; without a bound every listing passes
C20_ByPurpose ==
    (Filtered /\ PassesTheRest) =>
        /\ PassesPrice \/ FailsPrice
        /\ PassesPrice <=>
              (Bounded => \E k \in FieldsFor(query.purpose) : WithinBounds(coll[1][k]))

\* a query without a purpose and with an upper price bound has run on a
\* rental listing that holds its rent per month, within the bound, and no
\* sort price: the tiers that apply the price filter do not return it
C20_Witness ==
    /\ Filtered /\ PassesTheRest /\ FailsPrice
    /\ query.purpose = None /\ query.price_max = IntV(2) /\ IsNone(query.price_min)
    /\ coll[1].purpose = "rental"
    /\ coll[1].price_rent_pcm_gbp = IntV(2) /\ IsNone(coll[1].price_sort_gbp)
    /\ IsNone(coll[1].price_sale_gbp) /\ IsNone(coll[1].price_match_sale)

---------------------------------------------------------------------------
(* The beds and baths filters: which stored values they let pass           *)
(* (checked under SpecRooms).                                              *)

\* the one listing is a candidate of the tier
InTier(ids) == ids = <<coll[1]._id>>

\* one of the places holds an integer, or the decimal text of one, that is
\* at least the minimum asked for; no minimum is met by every listing
MeetsMin(doc, fields, min_v) ==
    IsNone(min_v) \/ \E f \in fields :
        ~IsNone(Denoted(doc[f])) /\ Denoted(doc[f]).n >= min_v.n

\* C21 as claimed: in the tiers that apply the beds/baths filter a listing
\* passes if and only if its beds (resp. baths) value, an integer or a
\* numeric text in attributes, attributes_full or the top-level field, is at
\* least the minimum asked for, for every stored value and minimum >= 1
C21_AsClaimed ==
    (Filtered /\ InTier(scored.text_no_beds)) =>
        /\ scored.text_strict = scored.text_no_price
        /\ InTier(scored.text_strict) <=>
              /\ MeetsMin(coll[1], BedsFields, query.beds_min)
              /\ MeetsMin(coll[1], BathsFields, query.baths_min)

\* a listing that holds 3 beds as an integer in the top-level field only is
\* asked for with beds_min 2: it is a candidate of text_no_beds and of
\* neither tier that applies the beds filter
C21_Witness ==
    /\ Filtered /\ InTier(scored.text_no_beds)
    /\ scored.text_strict = <<>> /\ scored.text_no_price = <<>>
    /\ query.beds_min = IntV(2)
    /\ coll[1].beds = IntV(3)
    /\ IsNone(coll[1].attributes_bedrooms) /\ IsNone(coll[1].attributes_full_bedrooms)

---------------------------------------------------------------------------
(* The subcategory of the query and of the listing, and the features       *)
(* (checked under SpecFacets).                                             *)

\* the canonical subcategory the query asks for, None when it asks for none
\* or its text does not resolve
Want == canonical_subcategory(OrText(QDict.subcategory, QDict.subcategory_canonical))

\* the candidates every tier run so far has fetched, with the tier's name
FetchedCandidates ==
    UNION {{[tier |-> fetched[i].tier, cand |-> fetched[i].docs[j]] :
               j \in 1..Len(fetched[i].docs)} : i \in 1..Len(fetched)}

\* the query without a subcategory
AnyType == [QDict EXCEPT !.subcategory = None, !.subcategory_canonical = None]

\* C22: when the query's subcategory resolves to c, every candidate fetched
\* in every tier has subcategory_canonical = c or a raw subcategories entry
\* that contains c, whatever the case; when it does not resolve, every tier
\* fetches the candidates of the query without a subcategory
C22_SubcategoryFilter ==
    /\ \A x \in FetchedCandidates :
          Want # None =>
             \/ x.cand.doc.subcategory_canonical = Want
             \/ \E j \in 1..Len(x.cand.doc.subcategories) :
                   Contains(Lower(x.cand.doc.subcategories[j]), Lower(Want))
    /\ \A i \in 1..Len(fetched) :
          Want = None =>
             {fetched[i].docs[j].doc._id : j \in 1..Len(fetched[i].docs)}
                = CandidateIds(AnyType, fetched[i].tier)

\* a query for a house has fetched in regex_fallback a listing without
\* subcategory_canonical whose raw subcategory contains "House", and not the
\* flat and the listing without subcategory of the same street
C22_Witness ==
    /\ Done
    /\ Want = "house"
    /\ Len(coll) = 4
    /\ Len(fetched) = 4
    /\ {x.cand.doc._id : x \in FetchedCandidates} = {"502", "503"}
    /\ result = Return(<<coll[3]>>, "regex_fallback")

---------------------------------------------------------------------------
(* The price closeness as a formula (checked under SpecScore).             *)

\* the listing has a price and the query a price bound, and no bound is 0
PricedAndBounded ==
    /\ Scored /\ Truthy(scored.price_read)
    /\ Truthy(query.price_min) \/ Truthy(query.price_max)
    /\ query.price_min # IntV(0) /\ query.price_max # IntV(0)

\* the effective range: a missing bound is the listing's own price
EffLo == IF IsNone(query.price_min) THEN scored.price_read.n ELSE query.price_min.n
EffHi == IF IsNone(query.price_max) THEN scored.price_read.n ELSE query.price_max.n

\* the price term is 2.0 * (1 - min(1, dist)) where dist is
\* abs(price - mid) / over and over2 is twice over
ClosenessOver(over2) ==
    LET p2 == Abs(2 * scored.price_read.n - (EffLo + EffHi))
    IN  /\ scored.price.ok
        /\ scored.price.n * over2 = scored.price.d * 40 * (over2 - Min(over2, p2))

ListingCanon(doc) ==
    LET rs == {j \in 1..Len(doc.subcategories) :
                  canonical_subcategory(doc.subcategories[j]) # None}
    IN  IF doc.subcategory_canonical \notin {None, ""} THEN doc.subcategory_canonical
        ELSE IF rs = {} THEN None
        ELSE canonical_subcategory(doc.subcategories[CHOOSE j \in rs : \A k \in rs : j <= k])

\* the score of candidate c is its score for query qq plus n twentieths
ScoredAbove(c, qq, n) ==
    ScoreShifted(c._rankScore, _score(c.doc, qq, c._textScore), n)

\* C24: the score of every candidate is its score for the query without a
\* subcategory plus 2.0 when the query's subcategory resolves and the
\* listing's canonical subcategory equals it, minus 0.75 when it resolves
\* and the listing's differs, and plus 0 when the query asks for none or its
\* text does not resolve
C24_SubcategoryTerm ==
    \A x \in FetchedCandidates :
        ScoredAbove(x.cand, AnyType,
                    IF Want = None THEN 0
                    ELSE IF ListingCanon(x.cand.doc) = Want THEN 40 ELSE -15)

\* a query for a house returns from text_strict the houseboat, whose raw
\* subcategory contains "house" and resolves to other: its score is 0.75
\* below its score for the query without a subcategory
C24_Witness ==
    /\ Done
    /\ Want = "house"
    /\ result.kind = "return" /\ result.tier = "text_strict"
    /\ result.doc[1]._id = "503"
    /\ ListingCanon(result.doc[1]) = "other"
    /\ ScoredAbove(fetched[1].docs[1], AnyType, -15)

\* the features the query asks for, each under its canonical name
Asked ==
    LET fs == SelectSeq(QDict.features, LAMBDA x : x \notin {None, ""})
    IN  [i \in 1..Len(fs) |-> norm_feature(fs[i])]

\* the listing has the feature in its features, in a highlight or in its
\* marketing text (address, heading, body), whatever the case
Holds(doc, f) ==
    \/ \E i \in 1..Len(doc.features) : Contains(Lower(doc.features[i]), Lower(f))
    \/ \E i \in 1..Len(doc.highlights) : Contains(Lower(doc.highlights[i]), Lower(f))
    \/ Contains(Lower(doc.display_address \o " " \o doc.heading \o " " \o doc.body),
                Lower(f))

\* how many of the features asked for the listing has, one per entry of the
\* query's list
Matched(doc) == Cardinality({i \in 1..Len(Asked) : Holds(doc, Asked[i])})

\* the query without features
NoFeatures == [QDict EXCEPT !.features = <<>>]

\* listing e has every feature text, highlight and marketing text of d
Gains(d, e) ==
    /\ \A i \in 1..Len(d.features) : \E j \in 1..Len(e.features) : e.features[j] = d.features[i]
    /\ \A i \in 1..Len(d.highlights) : \E j \in 1..Len(e.highlights) : e.highlights[j] = d.highlights[i]
    /\ d.heading \in {"", e.heading} /\ d.body \in {"", e.body}

\* C25: the score of every candidate is its score for the query without
\* features plus min(1.5, 0.5 * k), k being the number of features asked for
\* that are found, under their canonical names, in the listing's features,
\* highlights or marketing text; that is 0 when none is asked for or found,
\* at most 1.5, and no less for a listing that has the features of another
\* and more
C25_FeatureTerm ==
    /\ \A x \in FetchedCandidates :
          ScoredAbove(x.cand, NoFeatures, Min(30, 10 * Matched(x.cand.doc)))
    /\ \A x \in FetchedCandidates : \A y \in FetchedCandidates :
          (x.tier = y.tier /\ Gains(x.cand.doc, y.cand.doc)) =>
              \E n \in 0..30 : \E m \in n..30 :
                  /\ ScoredAbove(x.cand, NoFeatures, n)
                  /\ ScoredAbove(y.cand, NoFeatures, m)

\* four features are asked for and the listing returned has the four, one
\* in its features as asked, one under its canonical name, one in a
\* highlight and one in its marketing text: the term is 1.5, not 2.0, and
\* the listings with fewer of them were fetched behind it
C25_Witness ==
    /\ Done
    /\ Len(Asked) = 4
    /\ result.kind = "return" /\ result.doc[1]._id = "502"
    /\ Matched(result.doc[1]) = 4
    /\ Len(fetched) = 1 /\ Len(fetched[1].docs) = 4
    /\ ScoredAbove(fetched[1].docs[1], NoFeatures, 30)
    /\ ScoredAbove(fetched[1].docs[2], NoFeatures, 20)
    /\ ScoredAbove(fetched[1].docs[4], NoFeatures, 0)

---------------------------------------------------------------------------
(* Candidates of equal score (checked under SpecTrace, whose collections   *)
(* do not hold the listings in the order the store returns them).          *)

\* the place of the listing with identifier id in the sequence ds of
\* [doc |-> ...] records
PlaceIn(ds, id) == CHOOSE k \in 1..Len(ds) : ds[k].doc._id = id

\* the places in the ranked list docs of the candidates that share the
\* highest score
TopTied(docs) ==
    {k \in 1..Len(docs) : ScoreEqual(docs[k]._rankScore, docs[1]._rankScore)}

\* the store returned cur in its order: relevance first when the tier is a
\* text search, then the most recently updated
InStoreOrder(cur, text) ==
    \A a \in 1..Len(cur) : \A b \in (a + 1)..Len(cur) :
        /\ text => cur[a]._textScore >= cur[b]._textScore
        /\ (text => cur[a]._textScore = cur[b]._textScore)
              => ~Newer(cur[b].doc, cur[a].doc)

\* the ranked list docs keeps candidates of equal score in the order of cur
TiesAsIn(docs, cur) ==
    \A a \in 1..Len(docs) : \A b \in (a + 1)..Len(docs) :
        ScoreEqual(docs[a]._rankScore, docs[b]._rankScore) =>
            PlaceIn(cur, docs[a].doc._id) < PlaceIn(cur, docs[b].doc._id)

\* C26: in every tier run the store returns the candidates by relevance,
\* then most recently updated first, the ranking keeps candidates of equal
\* score in that order, and the listing find_best returns from the winning
\* tier is, among those that share the highest score, the first the store
\* returned
C26_TiesKeepFetchOrder ==
    \A i \in 1..Len(fetched) :
        \E cur \in {TierCursor(coll, QDict, TierNamed(fetched[i].tier)).docs} :
            /\ InStoreOrder(cur, TierNamed(fetched[i].tier).text)
            /\ TiesAsIn(fetched[i].docs, cur)
            /\ (Done /\ result.kind = "return" /\ ~IdExact /\ i = Len(fetched)) =>
                  \A k \in TopTied(fetched[i].docs) :
                      PlaceIn(cur, result.doc[1]._id)
                          <= PlaceIn(cur, fetched[i].docs[k].doc._id)

\* two candidates share the highest score and the one returned is the more
\* recently updated of the two, although the collection holds it after the
\* other
C26_Witness ==
    /\ Done /\ result.kind = "return" /\ ~IdExact
    /\ Len(fetched) >= 1
    /\ \E k \in TopTied(fetched[Len(fetched)].docs) :
          \E d \in {fetched[Len(fetched)].docs[k].doc} :
              /\ d._id # result.doc[1]._id
              /\ Newer(result.doc[1], d)
              /\ \E a \in 1..Len(coll) : \E b \in (a + 1)..Len(coll) :
                    coll[a]._id = d._id /\ coll[b]._id = result.doc[1]._id

---------------------------------------------------------------------------
(* The index setup (checked under SpecIndex).                              *)

\* _ensure_indexes has run to its end at least once
SetUp == idx.runs >= 1 /\ idx.pc \in {"serve", "idle"}

AllStructured == {StructuredIndexes[i] : i \in 1..Len(StructuredIndexes)}

\* whatever index the collection held under the name text_search, once
\* _ensure_indexes has run the collection holds the expected text index and
\* every single-field index, a differing text index having been dropped and
\* created anew; and from then on no run changes, creates or drops an index
C27_SetupTolerant ==
    /\ [](SetUp => idx.text = "expected" /\ idx.plain = AllStructured)
    /\ [][idx.runs >= 2 =>
             /\ idx'.text = idx.text /\ idx'.plain = idx.plain
             /\ idx'.created = idx.created /\ idx'.dropped = idx.dropped]_vars

\* _ensure_indexes runs once in the life of the process, however many
\* requests the process serves
OncePerProcess == [](idx.runs <= 1)

\* C27 as claimed: index setup tolerates a conflicting text index, is
\* idempotent, and is performed once per process, not once per request
C27_AsClaimed == C27_SetupTolerant /\ OncePerProcess

\* the process has served one request, for which a differing text index was
\* dropped and created anew, and has run _ensure_indexes to its end again
\* for the second
C27_Witness ==
    /\ idx.served = 1 /\ idx.runs = 2 /\ idx.pc = "serve"
    /\ idx.dropped = 1
    /\ idx.text = "expected" /\ idx.plain = AllStructured

---------------------------------------------------------------------------
(* C28: how find_best ends.                                                *)

\* the direct-id lookups made so far: each begins with a find_one by _id
Lookups == SelectSeq(calls, LAMBDA x : x.op = "find_one" /\ x.arg = "_id")

\* the three ways find_best returns
Terminal ==
    /\ result.kind = "return"
    /\ \/ result.tier = "id_exact" /\ Len(result.doc) = 1
       \/ (\E i \in 1..Len(TierOrder) : result.tier = TierOrder[i]) /\ Len(result.doc) = 1
       \/ result.tier = "none" /\ result.doc = <<>>

\* C28, as claimed: while the store's calls return, find_best makes at most
\* one direct-id lookup per identifier key and at most four tier runs, the
\* first of them text_strict, and it ends returning id_exact with a listing,
\* a tier's name with a listing, or "none" with no listing.
C28_AsClaimed ==
    ~StoreRaised =>
        /\ Len(Lookups) <= Len(IdKeys)
        /\ Len(TiersRun) <= Len(TierOrder)
        /\ TiersRun # <<>> => TiersRun[1] = "text_strict"
        /\ Done => Terminal
        /\ ~Done => result = Pending

\* every store call returned, the first tier was fetched and gave nothing,
\* and find_best ended in a TypeError while scoring in text_no_price
C28_Witness ==
    /\ Done
    /\ ~StoreRaised
    /\ query.price_max = Bad
    /\ query.beds_min = PyNone
    /\ query.baths_min = PyNone
    /\ TiersRun = <<"text_strict", "text_no_price">>
    /\ Len(fetched) = 1
    /\ result.kind = "raise"
    /\ result.exc = "TypeError"

---------------------------------------------------------------------------
(* C29: what the beds and baths accessors read.                            *)

\* a stored value that is an integer n >= 0 or the decimal text of one
Parsable(v) ==
    \/ IsInt(v) /\ v.n >= 0
    \/ IsStr(v) /\ ~IsNone(IntOfText(v.s)) /\ IntOfText(v.s).n >= 0

\* the integer a parsable value stands for
StoredInt(v) == IF IsInt(v) THEN v ELSE IntOfText(v.s)

\* the integer of the first of the locations vs that holds a parsable value;
\* PyNone ("unknown") when none does
FirstStored(vs) ==
    LET hits == {i \in 1..Len(vs) : Parsable(vs[i])}
    IN  IF hits = {} THEN PyNone
        ELSE StoredInt(vs[CHOOSE i \in hits : \A j \in hits : i <= j])

BedsLocations ==
    <<coll[1].attributes_bedrooms, coll[1].attributes_full_bedrooms, coll[1].beds>>

BathsLocations ==
    <<coll[1].attributes_bathrooms, coll[1].attributes_full_bathrooms, coll[1].baths>>

\* C29, as claimed: the beds and the baths read for scoring are the integer
\* held by the first of attributes, attributes_full and the top-level field
\* that holds an integer n >= 0 or its decimal text, and they are unknown
\* only when none of the three holds one.
C29_AsClaimed ==
    Scored =>
        /\ scored.beds_read = FirstStored(BedsLocations)
        /\ scored.baths_read = FirstStored(BathsLocations)

\* the only beds value of the listing is the integer 0 in its top-level
\* field, and its only baths value the integer 0 in attributes_full: both
\* are read as unknown
C29_Witness ==
    /\ Scored
    /\ BedsLocations = <<PyNone, PyNone, IntV(0)>>
    /\ BathsLocations = <<PyNone, IntV(0), PyNone>>
    /\ IsNone(scored.beds_read)
    /\ IsNone(scored.baths_read)

---------------------------------------------------------------------------
(* C30: the rooms filter and the scorer's accessor on the same listing     *)
(* (checked under SpecRooms).                                              *)

\* the minimum asked for, the three places of the listing it is about, what
\* the scorer reads from them and the term it adds
Rooms ==
    IF ~IsNone(query.beds_min)
    THEN [min |-> query.beds_min, places |-> BedsLocations,
          read |-> _beds(coll[1]),
          term |-> RoomsTerm(query.beds_min, _beds(coll[1]), 20, 12, 40)]
    ELSE [min |-> query.baths_min, places |-> BathsLocations,
          read |-> _baths(coll[1]),
          term |-> RoomsTerm(query.baths_min, _baths(coll[1]), 16, 10, 34)]

\* the listing is a candidate of a tier that applies the rooms filter
FetchedWithRooms ==
    /\ Filtered
    /\ InTier(scored.text_strict) \/ InTier(scored.text_no_price)

\* the places that hold a value all hold the same number, as an integer or
\* as its decimal text
PlacesAgree(vs) ==
    \A i, j \in 1..Len(vs) :
        (~IsNone(vs[i]) /\ ~IsNone(vs[j])) =>
            /\ Parsable(vs[i]) /\ Parsable(vs[j])
            /\ StoredInt(vs[i]) = StoredInt(vs[j])

\* C30, as claimed: every candidate of text_strict or text_no_price, with
\* beds_min (resp. baths_min) m, has a beds (resp. baths) value read by the
\* scorer that is known and at least m, and its term is not a penalty.
C30_AsClaimed ==
    FetchedWithRooms =>
        /\ ~IsNone(Rooms.read)
        /\ Rooms.read.n >= Rooms.min.n
        /\ Rooms.term.ok /\ Rooms.term.n >= 0

\* C30, amended: every candidate of text_strict or text_no_price has a place
\* holding a value of at least m, and the scorer reads a known value for it,
\* so its term is never the -0.25 of an unknown value; when the places of
\* the listing that hold a value agree, the value read is at least m and the
\* term is the bonus, strictly positive.
C30_AgreeWhenPlacesAgree ==
    FetchedWithRooms =>
        /\ scored.text_strict = scored.text_no_price
        /\ \E i \in 1..Len(Rooms.places) :
              /\ Parsable(Rooms.places[i])
              /\ StoredInt(Rooms.places[i]).n >= Rooms.min.n
        /\ ~IsNone(Rooms.read)
        /\ Rooms.term.ok
        /\ PlacesAgree(Rooms.places) =>
              /\ Rooms.read.n >= Rooms.min.n
              /\ Rooms.term.n > 0
        /\ Rooms.read.n < Rooms.min.n => Rooms.term.n < 0

\* a listing holding 3 baths in attributes and in attributes_full alike, as
\* the sync writes them, is asked for with baths_min 2: it is a candidate of
\* text_strict, read as 3 and given the bonus 0.5 + 0.2
C30_Witness ==
    /\ FetchedWithRooms
    /\ query.baths_min = IntV(2)
    /\ BathsLocations = <<IntV(3), IntV(3), PyNone>>
    /\ Rooms.read = IntV(3)
    /\ Rooms.term.n = 14

===========================================================================
